---- MODULE Spec2Model ----
(***************************************************************************)
(* Build pipeline of the psgrn/pscmp Green's function backend              *)
(* (src/src/fomosto/psgrn_pscmp.py): the solver runners PsGrnRunner.run    *)
(* and PsCmpRunner.run, PsGrnCmpGFBuilder.work_block, and the store and    *)
(* build driver they are called with.                                      *)
(*                                                                         *)
(* Every worker is a process of its own (own working directory, own SIGINT *)
(* handler, own child solver); the store and its write lock are shared.    *)
(* The external solver is a black box: when it exits, and with what exit   *)
(* code and output, is chosen nondeterministically; the time series it     *)
(* writes are a function of its input (Raw).                               *)
(*                                                                         *)
(* Spec follows a build with one worker, SpecPar a build with two.  The    *)
(* functions of the backend that do not depend on that state are followed  *)
(* by specifications of their own, which draw the arguments of one call    *)
(* (call) and record what it returns (ret): SpecPut for the body of the    *)
(* write loop, SpecGrid for the partition of a grid into blocks, SpecRfs   *)
(* for the decomposition of a moment tensor component, SpecFn for the      *)
(* scaling factors, the scaling of a trace, init, the patch row of a       *)
(* rectangular source, the number of time samples and the texts of the     *)
(* solver inputs, SpecMT for decompositions made one after another on the  *)
(* lookup tables.  SpecRun follows one call of PsGrnRunner.run on its      *)
(* own, SpecBlock one call of work_block for a block of step 1.            *)
(***************************************************************************)
EXTENDS Integers, Sequences, FiniteSets, TLC

\* ------------------------------------------------------------------ bounds
NDist == 2          \* distance samples of the store grid (storeconf.ndistances)
NDepth == 2         \* source depth samples (storeconf.nsource_depths)
MaxSigints == 2     \* SIGINTs delivered over one behaviour
MaxFails == 1       \* environment failures (launch, solver, store I/O) injected
MaxPuts == 4        \* puts applied in the store-level specification SpecPut
MaxResumes == 1     \* re-entries of the build with continue_
MaxN == 3           \* samples per axis of the grids partitioned in SpecGrid
MaxBlock == 2       \* block size per axis given to the builder in SpecGrid
MaxNull == 4        \* largest magnitude of the nullification in SpecRfs
MaxModulus == 4     \* largest numerator of the elastic moduli in SpecFn
MaxSize == 2        \* largest edge length mtsize of a source patch in SpecFn
MaxSamples == 40    \* largest n_time_samples tried one by one in SpecFn
MaxLog2 == 29       \* largest exponent of a power of two tried as n_time_samples
MaxRows == 3        \* rows (patches, model layers) of a solver input
MaxDays == 3        \* last snapshot time tmax in days
MaxCalls == 2       \* decompositions made one after another in SpecMT

Workers == {1, 2}
\* the value of a store key without a committed record
None == [data |-> <<>>, factor |-> "none"]

\* no call under study, nothing returned
NoCall == [op |-> "none"]

\* ------------------------------------------------------- program constants
nsteps == 2

pscmp_displ_names == <<"un", "ue", "ud">>

\* the table with the north channel of ee written to the index of dd
gfmapping_shared_index ==
  << [mt |-> "nn", gfmap |-> [un |-> <<0, "Ai*sf">>, ud |-> <<5, "Ai*sf">>]],
     [mt |-> "ne", gfmap |-> [ue |-> <<3, "Ai*mui">>]],
     [mt |-> "nd", gfmap |-> [un |-> <<1, "Ai*mui">>, ud |-> <<6, "Ai*mui">>]],
     [mt |-> "ed", gfmap |-> [ue |-> <<4, "Ai*mui">>]],
     [mt |-> "dd", gfmap |-> [un |-> <<2, "Ai*sf">>, ud |-> <<7, "Ai*sf">>]],
     [mt |-> "ee", gfmap |-> [un |-> <<2, "Ai*sf">>, ud |-> <<9, "Ai*sf">>]] >>

\* gfmapping of work_block: (mt, {channel: (ig, factor)}) in source order.
\* Ai*sf is the trace normalisation of the isotropic components, Ai*mui the
\* 1/shear-modulus scaling of the deviatoric ones.
gfmapping ==
  << [mt |-> "nn", gfmap |-> [un |-> <<0, "Ai*sf">>, ud |-> <<5, "Ai*sf">>]],
     [mt |-> "ne", gfmap |-> [ue |-> <<3, "Ai*mui">>]],
     [mt |-> "nd", gfmap |-> [un |-> <<1, "Ai*mui">>, ud |-> <<6, "Ai*mui">>]],
     [mt |-> "ed", gfmap |-> [ue |-> <<4, "Ai*mui">>]],
     [mt |-> "dd", gfmap |-> [un |-> <<2, "Ai*sf">>, ud |-> <<7, "Ai*sf">>]],
     [mt |-> "ee", gfmap |-> [un |-> <<8, "Ai*sf">>, ud |-> <<9, "Ai*sf">>]] >>

NComp == Len(gfmapping)
IGs == 0..9

\* ------------------------------------------------ moment tensor components
\* MTIso and MTDev in the order of their dict entries
MTIso ==
  << [comp |-> "nn", strike |-> 90, dip |-> 90, rake |-> 0, slip |-> 0, opening |-> 1],
     [comp |-> "ee", strike |-> 0, dip |-> 90, rake |-> 0, slip |-> 0, opening |-> 1],
     [comp |-> "dd", strike |-> 0, dip |-> 0, rake |-> -90, slip |-> 0, opening |-> 1] >>

MTDev ==
  << [comp |-> "ne", strike |-> 90, dip |-> 90, rake |-> 180, slip |-> 1, opening |-> 0],
     [comp |-> "nd", strike |-> 180, dip |-> 0, rake |-> 0, slip |-> 1, opening |-> 0],
     [comp |-> "ed", strike |-> 270, dip |-> 0, rake |-> 0, slip |-> 1, opening |-> 0] >>

comps(table) == {table[i].comp : i \in DOMAIN table}

\* kwargs.update(params); PsCmpRectangularSource(**kwargs): the source takes
\* the orientation, slip and opening of the table entry
PsCmpRectangularSource(params, opening) ==
  [strike |-> params.strike, dip |-> params.dip, rake |-> params.rake,
   slip |-> params.slip, opening |-> opening]

\* the nullification applied to the source of the component itself
PsCmpTensileSF_to_rfs_swapped(idx, nullification) ==
  [i \in DOMAIN MTIso |->
     PsCmpRectangularSource(MTIso[i],
       IF MTIso[i].comp = idx THEN MTIso[i].opening * nullification
                              ELSE MTIso[i].opening)]

\* PsCmpTensileSF.to_rfs: one source per entry of MTIso, the opening of the
\* entries other than self.idx multiplied by the nullification
PsCmpTensileSF_to_rfs(idx, nullification) ==
  [i \in DOMAIN MTIso |->
     PsCmpRectangularSource(MTIso[i],
       IF MTIso[i].comp # idx THEN MTIso[i].opening * nullification
                              ELSE MTIso[i].opening)]

\* the source built without the entry of MTDev: the class defaults of
\* PsCmpRectangularSource
PsCmpShearSF_to_rfs_defaults(idx) ==
  << [strike |-> 0, dip |-> 90, rake |-> 0, slip |-> 1, opening |-> 0] >>

\* PsCmpShearSF.to_rfs
PsCmpShearSF_to_rfs(idx) ==
  LET i == CHOOSE j \in DOMAIN MTDev : MTDev[j].comp = idx
  IN  << PsCmpRectangularSource(MTDev[i], MTDev[i].opening) >>

\* an unsupported idx answered with an empty list
PsCmpMomentTensor_to_rfs_silent(idx, nullification) ==
  IF idx \in comps(MTIso)
    THEN [exc |-> "none", rfs |-> PsCmpTensileSF_to_rfs(idx, nullification)]
  ELSE IF idx \in comps(MTDev)
    THEN [exc |-> "none", rfs |-> PsCmpShearSF_to_rfs(idx)]
  ELSE [exc |-> "none", rfs |-> <<>>]

\* PsCmpMomentTensor.to_rfs
PsCmpMomentTensor_to_rfs(idx, nullification) ==
  IF idx \in comps(MTIso)
    THEN [exc |-> "none", rfs |-> PsCmpTensileSF_to_rfs(idx, nullification)]
  ELSE IF idx \in comps(MTDev)
    THEN [exc |-> "none", rfs |-> PsCmpShearSF_to_rfs(idx)]
  ELSE [exc |-> "Exception", rfs |-> <<>>]

\* Values of the slip components: <<w, r>> stands for the double
\* w + r * 10^-20, a whole number and the residue that the sine and cosine
\* of the doubles nearest to pi and pi / 2 leave.
\* dcos: num.cos(value * num.pi / 180.)
dcos(value) ==
  CASE value = 0 -> <<1, 0>>
    [] value = 180 -> <<-1, 0>>
    [] value \in {90, -90} -> <<0, 6123>>

\* the cosine taken for the sine
dsin_cosine(value) == dcos(value)

\* dsin: num.sin(value * num.pi / 180.); sin of the double nearest to pi is
\* 1.2246467991473532e-16
dsin(value) ==
  CASE value = 0 -> <<0, 0>>
    [] value = 180 -> <<0, 12246>>
    [] value = 90 -> <<1, 0>>
    [] value = -90 -> <<-1, 0>>

\* PsCmpRectangularSource.dip_slip: float(self.slip * dsin(self.rake) * (-1))
dip_slip(src) ==
  <<src.slip * dsin(src.rake)[1] * (-1), src.slip * dsin(src.rake)[2] * (-1)>>

\* PsCmpRectangularSource.strike_slip: float(self.slip * dcos(self.rake))
strike_slip(src) ==
  <<src.slip * dcos(src.rake)[1], src.slip * dcos(src.rake)[2]>>

\* '%15f' % x for a slip component: the sign and the digits of x rounded to
\* six decimals, which the residue never reaches
slip_text(x) ==
  [neg |-> x[1] < 0 \/ (x[1] = 0 /\ x[2] < 0), int |-> IF x[1] < 0 THEN 0 - x[1] ELSE x[1], frac |-> 0]

\* the source patches of the pscmp configuration the builder was given:
\* here the patch of PsCmpConfigFull.example()
config_patches ==
  << [strike |-> 45, dip |-> 30, rake |-> -90, slip |-> 2, opening |-> 0] >>

\* --------------------------------------------------------- scaling factors
\* The elastic moduli and the factors computed from them are real numbers;
\* they are kept here as exact fractions <<numerator, denominator>> in
\* lowest terms with a positive denominator.
Abs(x) == IF x < 0 THEN 0 - x ELSE x

RECURSIVE gcd(_, _)
gcd(a, b) == IF b = 0 THEN a ELSE gcd(b, a % b)

rat(n, d) ==
  LET g == gcd(Abs(n), Abs(d))
      sgn == IF d < 0 THEN -1 ELSE 1
  IN  <<(sgn * n) \div g, (sgn * d) \div g>>

int(n) == <<n, 1>>

rat_neg(a) == <<0 - a[1], a[2]>>

rat_add(a, b) == rat(a[1] * b[2] + b[1] * a[2], a[2] * b[2])

rat_mul(a, b) == rat(a[1] * b[1], a[2] * b[2])

rat_lt(a, b) == a[1] * b[2] < b[1] * a[2]

\* a / b: a division by zero raises ZeroDivisionError
rat_div(a, b) ==
  IF b[1] = 0
    THEN [exc |-> "ZeroDivisionError", value |-> int(0)]
    ELSE [exc |-> "none", value |-> rat(a[1] * b[2], a[2] * b[1])]

\* the sign of the quotient lost
get_nullification_factor_unsigned(mu, lame_lambda) ==
  rat_div(lame_lambda, rat_add(rat_mul(int(2), mu), rat_mul(int(2), lame_lambda)))

\* get_nullification_factor: -lame_lambda / (2. * mu + 2. * lame_lambda)
get_nullification_factor(mu, lame_lambda) ==
  rat_div(rat_neg(lame_lambda),
          rat_add(rat_mul(int(2), mu), rat_mul(int(2), lame_lambda)))

\* get_trace_normalization_factor:
\* 1. / ((2. * mu) + lame_lambda + (2. * lame_lambda * nullification))
get_trace_normalization_factor(mu, lame_lambda, nullification) ==
  rat_div(int(1),
          rat_add(rat_add(rat_mul(int(2), mu), lame_lambda),
                  rat_mul(rat_mul(int(2), lame_lambda), nullification)))

\* get_iso_scaling_factors: (nullf, scale), or the exception of the first
\* division that fails
get_iso_scaling_factors(mu, lame_lambda) ==
  LET nullf == get_nullification_factor(mu, lame_lambda)
  IN  IF nullf.exc # "none"
        THEN [exc |-> nullf.exc, nullf |-> int(0), scale |-> int(0)]
        ELSE LET sc == get_trace_normalization_factor(mu, lame_lambda, nullf.value)
             IN  [exc |-> sc.exc, nullf |-> nullf.value, scale |-> sc.value]

\* ------------------------------------------------------------------- state
VARIABLES
  phase,            \* build state: INIT, STEP0_RUNNING, STEP1_RUNNING, DONE, ABORTED
  done,             \* status record of the build: finished <<step, iblock>>
  store,            \* key -> stored value, None where nothing is committed
  lockOwner,        \* worker holding the store write lock, 0 when free
  pc,               \* position of each worker
  step,             \* self.step of the worker's builder
  iblock,           \* block the worker is in
  imt,              \* index into gfmapping of the component being worked
  itr,              \* index into rawtraces inside the write loop
  exc,              \* exception in flight or raised out of work_block
  cwd,              \* working directory of the worker process
  old_wd,           \* old_wd of run()
  handler,          \* SIGINT handler in effect in the worker process
  run_interrupted,  \* the list "interrupted" of run() is non-empty
  wb_interrupted,   \* the list "interrupted" of work_block is non-empty
  proc,             \* child solver: unbound, running, reaped
  sigterm,          \* SIGTERM has been sent to the child
  result,           \* returncode / output_str / error_str of the child
  runner_output,    \* invocation whose output is recorded on the runner
  duplicate_inserts,
  patches,          \* cc.rectangular_source_patches of the worker's work_block
  runlog,           \* solver launches of the current work_block: component, patches
  nlock,            \* lock() calls of the worker in the current work_block
  nunlock,          \* unlock() calls of the worker in the current work_block
  nput,             \* put() calls of the worker in the current work_block
  nsig,             \* SIGINTs delivered so far
  nfail,            \* environment failures injected so far
  nresume,          \* builds re-entered with continue_
  ndup,             \* DuplicateInsert raised so far (all workers)
  putlog,           \* SpecPut: <<key, value, outcome>> of the puts applied
  force,            \* build(force=...)
  nworkers,         \* build(nworkers=...)
  heap,             \* the tables MTIso and MTDev and the requesting moment tensor
  psgrn_input,      \* the file "input" exists in the psgrn output directory
  call,             \* function-level specifications: the call under study
  ret               \* function-level specifications: what the call returned

vars == << phase, done, store, lockOwner, pc, step, iblock, imt, itr, exc, cwd,
           old_wd, handler, run_interrupted, wb_interrupted, proc, sigterm,
           result, runner_output, duplicate_inserts, nlock, nunlock, nput,
           nsig, nfail, nresume, ndup, putlog, call, ret, patches, runlog,
           force, nworkers, heap, psgrn_input >>

\* ------------------------------------------------------------- grid, blocks
\* block size chosen by PsGrnCmpGFBuilder.__init__ for a store configuration
\* with the sample counts conf_ns: (source depths, distances) in the 2-D
\* layout, (receiver depths, source depths, distances) in the 3-D layout;
\* given is the block_size argument, <<>> for None
builder_block_size(conf_ns, s, given) ==
  LET nsource_depths == conf_ns[Len(conf_ns) - 1]
      ndistances == conf_ns[Len(conf_ns)]
      bs == IF s = 0 THEN <<1, nsource_depths, ndistances>>
            ELSE IF given = <<>> THEN <<1, 1, ndistances>> ELSE given
  IN  IF Len(conf_ns) = 2 THEN Tail(bs) ELSE bs

Min(a, b) == IF a < b THEN a ELSE b

\* Builder.__init__: number of blocks along each axis, and in all
nblocks_dims(conf_ns, bs) ==
  [i \in DOMAIN conf_ns |-> (conf_ns[i] - 1) \div bs[i] + 1]

RECURSIVE prod_from(_, _)
prod_from(dims, i) == IF i > Len(dims) THEN 1 ELSE dims[i] * prod_from(dims, i + 1)

builder_nblocks(conf_ns, bs) == prod_from(nblocks_dims(conf_ns, bs), 1)

\* numpy.unravel_index(ib, dims): the last axis runs fastest
unravel_index(ib, dims) ==
  [i \in DOMAIN dims |-> (ib \div prod_from(dims, i + 1)) % dims[i]]

\* begin index and sample count of block ib on every axis (without clipping
\* of the last chunk to the grid)
get_block_unclipped(conf_ns, bs, ib) ==
  LET ind == unravel_index(ib, nblocks_dims(conf_ns, bs))
      begins == [i \in DOMAIN conf_ns |-> ind[i] * bs[i]]
  IN  [begins |-> begins, counts |-> [i \in DOMAIN conf_ns |-> bs[i]]]

\* Builder.get_block: begin index and sample count of block ib on every axis
\* (indices instead of the coordinates mins + index * deltas)
get_block(conf_ns, bs, ib) ==
  LET ind == unravel_index(ib, nblocks_dims(conf_ns, bs))
      begins == [i \in DOMAIN conf_ns |-> ind[i] * bs[i]]
      ends == [i \in DOMAIN conf_ns |-> Min(begins[i] + bs[i], conf_ns[i])]
  IN  [begins |-> begins, counts |-> [i \in DOMAIN conf_ns |-> ends[i] - begins[i]]]

\* self.shear_moduli / self.lambda_moduli of __init__: one entry per sample
\* of storeconf.coords[0], the first axis of the layout; an entry is named
\* by the index of the depth sample it was computed for
moduli_table(conf_ns) == [i \in 0..(conf_ns[1] - 1) |-> i]

\* the first lines of work_block: the block extents, and in the 2-D layout
\* mu = self.shear_moduli[iblock], lame_lambda = self.lambda_moduli[iblock].
\* moduli tells what the later use of mu and lame_lambda meets: the table
\* entry, an index outside the table, or names that were never bound.
work_block_extents(conf_ns, bs, ib) ==
  LET b == get_block(conf_ns, bs, ib)
      n == Len(conf_ns)
  IN  [sz |-> b.begins[n - 1], firstx |-> b.begins[n],
       ns |-> b.counts[n - 1], nx |-> b.counts[n],
       moduli |-> IF n = 2
                    THEN IF ib \in DOMAIN moduli_table(conf_ns)
                           THEN [exc |-> "none", entry |-> moduli_table(conf_ns)[ib]]
                           ELSE [exc |-> "IndexError", entry |-> -1]
                    ELSE [exc |-> "UnboundLocalError", entry |-> -1]]

\* the store built by Spec and SpecPar: the 2-D layout (source depth,
\* distance) of storeconf.ns, the builder constructed without block_size
ns == <<NDepth, NDist>>

\* the block size of step 1 chosen for step 0 as well
block_size_per_depth(s) == <<1, NDist>>

block_size(s) == builder_block_size(ns, s, <<>>)

block_dims(s) == nblocks_dims(ns, block_size(s))

nblocks(s) == builder_nblocks(ns, block_size(s))

all_block_indices(s) == 0..(nblocks(s) - 1)

\* the extents of every block of both steps
block_extents ==
  [s \in 0..(nsteps - 1) |->
     [ib \in all_block_indices(s) |->
        LET e == work_block_extents(ns, block_size(s), ib)
        IN  [sz |-> e.sz, firstx |-> e.firstx, ns |-> e.ns, nx |-> e.nx]]]

get_block_extents(s, ib) == block_extents[s][ib]

\* ------------------------------------------------------------------- store
Keys == (0..(NDepth - 1)) \X (0..(NDist - 1)) \X IGs

EmptyStore == [k \in Keys |-> None]

\* The time series the convolution solver writes for source depth sz,
\* component mt, distance x and channel chan: a function of its input.
Raw(sz, mt, x, chan) == <<sz, mt, x, chan>>

\* numpy.loadtxt(fn, skiprows=1) in get_results: the number of dimensions of
\* the array read from an output file with nrec data rows, one row per
\* observation point; a single row comes back as a 1-D array
loadtxt_ndim(nrec) == IF nrec = 1 THEN 1 ELSE 2

\* PsCmpRunner.get_results: data[:, istart:iend] needs a 2-D array
get_results_exc(nrec) == IF loadtxt_ndim(nrec) = 2 THEN "none" ELSE "IndexError"

\* PsCmpRunner.get_traces for the displacement channels: one trace per
\* receiver row and channel, rows outermost; a time series is a zero sample
\* followed by the samples of the snapshot files
get_traces(sz, firstx, nx, mt) ==
  [i \in 1..(3 * nx) |->
     LET row == (i - 1) \div 3
         comp == pscmp_displ_names[((i - 1) % 3) + 1]
     IN  [channel |-> comp, distance |-> firstx + row,
          ydata |-> <<0, Raw(sz, mt, firstx + row, comp)>>]]

\* the multiplication left out
scale_skipped(tr, factor) == [data |-> tr.ydata, factor |-> "none"]

\* gf_tr = GFTrace.from_trace(tr); gf_tr.data *= factor
scale(tr, factor) == [data |-> tr.ydata, factor |-> factor]

\* Store.put: a key that is present is reported as a duplicate and left as
\* it is, a key that is absent receives the value.
store_put(st, args, gf_tr) ==
  IF st[args] # None
    THEN [store |-> st, outcome |-> "DuplicateInsert"]
    ELSE [store |-> [st EXCEPT ![args] = gf_tr], outcome |-> "inserted"]

\* ------------------------------------------------------------- environment
\* SIGINTs and failures of the environment (launch, solver, store I/O) that
\* one behaviour is followed through; a build with a pool of workers is
\* followed through one of them.
SigintBudget == IF nworkers = 1 THEN MaxSigints ELSE Min(MaxSigints, 1 - nfail)

FailBudget == IF nworkers = 1 THEN MaxFails ELSE Min(MaxFails, 1 - nsig)

\* ------------------------------------------------------------ solver runner
\* step 0 drives psgrn (PsGrnRunner), step 1 pscmp (PsCmpRunner)
kind(w) == IF step[w] = 0 THEN "psgrn" ELSE "pscmp"

SolverError(w) == IF step[w] = 0 THEN "PsGrnError" ELSE "PsCmpError"

NoResult == [returncode |-> 0, errword |-> FALSE, error_str |-> FALSE]

\* what a child can end with: exit code, 'error' in its standard output,
\* something on its error stream; -15 only when it was terminated
Results(terminated) ==
  [returncode : IF terminated THEN {0, 1, -15} ELSE {0, 1},
   errword : BOOLEAN, error_str : BOOLEAN]

\* errmess of PsGrnRunner.run / errmsg of PsCmpRunner.run
errmess(k, r) ==
  (IF r.returncode # 0 THEN <<"non-zero exit state">> ELSE <<>>)
  \o (IF r.error_str /\ k = "pscmp" THEN <<"emitted something via stderr">> ELSE <<>>)
  \o (IF r.errword THEN <<"the string 'error' appeared in output">> ELSE <<>>)

\* an exception leaves work_block
Raise(w, e) ==
  /\ pc' = [pc EXCEPT ![w] = "aborted"]
  /\ exc' = [exc EXCEPT ![w] = e]

\* remove_if_exists without the test of force: an existing file is removed
run_write_input_overwrite(w) ==
  /\ pc[w] = "run_write_input"
  /\ IF kind(w) = "psgrn"
       THEN /\ pc' = [pc EXCEPT ![w] = "run_open_input"]
            /\ psgrn_input' = FALSE
       ELSE /\ pc' = [pc EXCEPT ![w] = "run_chdir"]
            /\ UNCHANGED psgrn_input
  /\ UNCHANGED << phase, done, store, lockOwner, step, iblock, imt, itr, cwd,
                  old_wd, handler, run_interrupted, wb_interrupted, proc,
                  sigterm, result, runner_output, duplicate_inserts, nlock,
                  nunlock, nput, nsig, nfail, nresume, ndup, putlog, call, ret,
                  patches, runlog, force, nworkers, heap, exc >>

\* self.config = config and the input file.  PsGrnRunner.run calls
\* remove_if_exists(input_fn, force=force): an existing file is removed
\* when forced and makes the call fail with CannotCreate otherwise; the
\* file is then opened and written (run_open_input).  PsCmpRunner.run
\* writes its input into the temporary directory of the runner.
run_write_input(w) ==
  /\ pc[w] = "run_write_input"
  /\ IF kind(w) = "psgrn" /\ psgrn_input /\ ~force
       THEN /\ Raise(w, "CannotCreate")
            /\ UNCHANGED psgrn_input
       ELSE IF kind(w) = "psgrn"
         THEN /\ pc' = [pc EXCEPT ![w] = "run_open_input"]
              /\ psgrn_input' = FALSE
              /\ UNCHANGED exc
         ELSE /\ pc' = [pc EXCEPT ![w] = "run_chdir"]
              /\ UNCHANGED << psgrn_input, exc >>
  /\ UNCHANGED << phase, done, store, lockOwner, step, iblock, imt, itr, cwd,
                  old_wd, handler, run_interrupted, wb_interrupted, proc,
                  sigterm, result, runner_output, duplicate_inserts, nlock,
                  nunlock, nput, nsig, nfail, nresume, ndup, putlog, call, ret,
                  patches, runlog, force, nworkers, heap >>

\* with open(input_fn, 'wb') as f: f.write(input_str) of PsGrnRunner.run
run_open_input(w) ==
  /\ pc[w] = "run_open_input"
  /\ psgrn_input' = TRUE
  /\ pc' = [pc EXCEPT ![w] = "run_chdir"]
  /\ UNCHANGED << phase, done, store, lockOwner, step, iblock, imt, itr, cwd,
                  old_wd, handler, run_interrupted, wb_interrupted, proc,
                  sigterm, result, runner_output, duplicate_inserts, nlock,
                  nunlock, nput, nsig, nfail, nresume, ndup, putlog, call, ret,
                  patches, runlog, force, nworkers, heap, exc >>

\* old_wd = os.getcwd(); os.chdir(outdir)
run_chdir(w) ==
  /\ pc[w] = "run_chdir"
  /\ old_wd' = [old_wd EXCEPT ![w] = cwd[w]]
  /\ cwd' = [cwd EXCEPT ![w] = "outdir"]
  /\ pc' = [pc EXCEPT ![w] = "run_signal"]
  /\ UNCHANGED << phase, done, store, lockOwner, step, iblock, imt, itr, exc,
                  handler, run_interrupted, wb_interrupted, proc, sigterm,
                  result, runner_output, duplicate_inserts, nlock, nunlock,
                  nput, nsig, nfail, nresume, ndup, putlog, call, ret,
                  patches, runlog, force,
                  nworkers, heap, psgrn_input >>

\* interrupted = []; original = signal.signal(SIGINT, signal_handler)
run_signal(w) ==
  /\ pc[w] = "run_signal"
  /\ run_interrupted' = [run_interrupted EXCEPT ![w] = FALSE]
  /\ handler' = [handler EXCEPT ![w] = "run"]
  /\ proc' = [proc EXCEPT ![w] = "unbound"]
  /\ sigterm' = [sigterm EXCEPT ![w] = FALSE]
  /\ result' = [result EXCEPT ![w] = NoResult]
  /\ pc' = [pc EXCEPT ![w] = "run_popen"]
  /\ UNCHANGED << phase, done, store, lockOwner, step, iblock, imt, itr, exc,
                  cwd, old_wd, wb_interrupted, runner_output,
                  duplicate_inserts, nlock, nunlock, nput, nsig, nfail,
                  nresume, ndup, putlog, call, ret,
                  patches, runlog, force, nworkers, heap, psgrn_input >>

\* the invocation the runner is in: psgrn, or the component given to pscmp
invocation(w) == IF step[w] = 0 THEN "psgrn" ELSE gfmapping[imt[w]].mt

\* Popen called before the try block: on OSError no finally clause runs
run_popen_outside_try(w) ==
  /\ pc[w] = "run_popen"
  /\ \/ /\ proc' = [proc EXCEPT ![w] = "running"]
        /\ pc' = [pc EXCEPT ![w] = "run_communicate"]
        /\ runlog' = [runlog EXCEPT ![w] =
             Append(@, [mt |-> invocation(w),
                        patches |-> IF step[w] = 0 THEN <<>> ELSE patches[w]])]
        /\ UNCHANGED << exc, cwd, handler, nfail >>
     \/ /\ nfail < FailBudget
        /\ nfail' = nfail + 1
        /\ cwd' = [cwd EXCEPT ![w] = old_wd[w]]
        /\ Raise(w, SolverError(w))
        /\ UNCHANGED << proc, runlog, handler >>
  /\ UNCHANGED << phase, done, store, lockOwner, step, iblock, imt, itr,
                  old_wd, run_interrupted, wb_interrupted, sigterm, result,
                  runner_output, duplicate_inserts, nlock, nunlock, nput,
                  nsig, nresume, ndup, putlog, call, ret, patches, force,
                  nworkers, heap, psgrn_input >>

\* proc = Popen(program, ...); on OSError: chdir(old_wd), the finally clause
\* restores the handler, and the solver error is raised
run_popen(w) ==
  /\ pc[w] = "run_popen"
  /\ \/ /\ proc' = [proc EXCEPT ![w] = "running"]
        /\ pc' = [pc EXCEPT ![w] = "run_communicate"]
        /\ runlog' = [runlog EXCEPT ![w] =
             Append(@, [mt |-> invocation(w),
                        patches |-> IF step[w] = 0 THEN <<>> ELSE patches[w]])]
        /\ UNCHANGED << exc, cwd, handler, nfail >>
     \/ /\ nfail < FailBudget
        /\ nfail' = nfail + 1
        /\ cwd' = [cwd EXCEPT ![w] = old_wd[w]]
        /\ handler' = [handler EXCEPT ![w] = "original"]
        /\ Raise(w, SolverError(w))
        /\ UNCHANGED << proc, runlog >>
  /\ UNCHANGED << phase, done, store, lockOwner, step, iblock, imt, itr,
                  old_wd, run_interrupted, wb_interrupted, sigterm, result,
                  runner_output, duplicate_inserts, nlock, nunlock, nput,
                  nsig, nresume, ndup, putlog, call, ret, patches, force,
                  nworkers, heap, psgrn_input >>

\* (output_str, error_str) = proc.communicate(b'input\n'): returns once the
\* child has ended, by itself or terminated, and has been waited for
run_communicate(w) ==
  /\ pc[w] = "run_communicate"
  /\ proc[w] = "running"
  /\ \E r \in Results(sigterm[w]) :
       /\ result' = [result EXCEPT ![w] = r]
       /\ IF errmess(kind(w), r) # <<>> /\ ~sigterm[w]
            THEN nfail < FailBudget /\ nfail' = nfail + 1
            ELSE UNCHANGED nfail
  /\ proc' = [proc EXCEPT ![w] = "reaped"]
  /\ pc' = [pc EXCEPT ![w] = "run_finally"]
  /\ UNCHANGED << phase, done, store, lockOwner, step, iblock, imt, itr, exc,
                  cwd, old_wd, handler, run_interrupted, wb_interrupted,
                  sigterm, runner_output, duplicate_inserts, nlock, nunlock,
                  nput, nsig, nresume, ndup, putlog, call, ret,
                  patches, runlog, force, nworkers, heap,
                  psgrn_input >>

\* finally: signal.signal(SIGINT, original)
run_finally(w) ==
  /\ pc[w] = "run_finally"
  /\ handler' = [handler EXCEPT ![w] = "original"]
  /\ pc' = [pc EXCEPT ![w] = "run_check"]
  /\ UNCHANGED << phase, done, store, lockOwner, step, iblock, imt, itr, exc,
                  cwd, old_wd, run_interrupted, wb_interrupted, proc, sigterm,
                  result, runner_output, duplicate_inserts, nlock, nunlock,
                  nput, nsig, nfail, nresume, ndup, putlog, call, ret,
                  patches, runlog, force,
                  nworkers, heap, psgrn_input >>

\* the messages collected in errmess never raised
run_check_unraised(w) ==
  /\ pc[w] = "run_check"
  /\ IF run_interrupted[w]
       THEN /\ Raise(w, "KeyboardInterrupt")
            /\ UNCHANGED << cwd, runner_output, proc, sigterm, result >>
       ELSE /\ runner_output' = [runner_output EXCEPT ![w] = invocation(w)]
            /\ cwd' = [cwd EXCEPT ![w] = old_wd[w]]
            /\ proc' = [proc EXCEPT ![w] = "unbound"]
            /\ sigterm' = [sigterm EXCEPT ![w] = FALSE]
            /\ result' = [result EXCEPT ![w] = NoResult]
            /\ pc' = [pc EXCEPT ![w] =
                        IF step[w] = 0 THEN "wb_done" ELSE "wb_get_traces"]
            /\ UNCHANGED exc
  /\ UNCHANGED << phase, done, store, lockOwner, step, iblock, imt, itr,
                  old_wd, handler, run_interrupted, wb_interrupted,
                  duplicate_inserts, nlock, nunlock, nput, nsig, nfail,
                  nresume, ndup, putlog, call, ret, patches, runlog, force,
                  nworkers, heap, psgrn_input >>

\* the result classified without looking at "interrupted"
run_check_unordered(w) ==
  /\ pc[w] = "run_check"
  /\ IF errmess(kind(w), result[w]) # <<>>
       THEN /\ cwd' = [cwd EXCEPT ![w] = old_wd[w]]
            /\ Raise(w, SolverError(w))
            /\ UNCHANGED << runner_output, proc, sigterm, result >>
       ELSE /\ runner_output' = [runner_output EXCEPT ![w] = invocation(w)]
            /\ cwd' = [cwd EXCEPT ![w] = old_wd[w]]
            /\ proc' = [proc EXCEPT ![w] = "unbound"]
            /\ sigterm' = [sigterm EXCEPT ![w] = FALSE]
            /\ result' = [result EXCEPT ![w] = NoResult]
            /\ pc' = [pc EXCEPT ![w] =
                        IF step[w] = 0 THEN "wb_done" ELSE "wb_get_traces"]
            /\ UNCHANGED exc
  /\ UNCHANGED << phase, done, store, lockOwner, step, iblock, imt, itr,
                  old_wd, handler, run_interrupted, wb_interrupted,
                  duplicate_inserts, nlock, nunlock, nput, nsig, nfail,
                  nresume, ndup, putlog, call, ret,
                  patches, runlog, force, nworkers, heap, psgrn_input >>

\* if interrupted: raise KeyboardInterrupt(); the classification of the
\* result; the recording of the output; os.chdir(old_wd)
run_check(w) ==
  /\ pc[w] = "run_check"
  /\ IF run_interrupted[w]
       THEN /\ Raise(w, "KeyboardInterrupt")
            /\ UNCHANGED << cwd, runner_output, proc, sigterm, result >>
       ELSE IF errmess(kind(w), result[w]) # <<>>
         THEN /\ cwd' = [cwd EXCEPT ![w] = old_wd[w]]
              /\ Raise(w, SolverError(w))
              /\ UNCHANGED << runner_output, proc, sigterm, result >>
         ELSE /\ runner_output' = [runner_output EXCEPT ![w] = invocation(w)]
              /\ cwd' = [cwd EXCEPT ![w] = old_wd[w]]
              /\ proc' = [proc EXCEPT ![w] = "unbound"]
              /\ sigterm' = [sigterm EXCEPT ![w] = FALSE]
              /\ result' = [result EXCEPT ![w] = NoResult]
              /\ pc' = [pc EXCEPT ![w] =
                          IF step[w] = 0 THEN "wb_done" ELSE "wb_get_traces"]
              /\ UNCHANGED exc
  /\ UNCHANGED << phase, done, store, lockOwner, step, iblock, imt, itr,
                  old_wd, handler, run_interrupted, wb_interrupted,
                  duplicate_inserts, nlock, nunlock, nput, nsig, nfail,
                  nresume, ndup, putlog, call, ret,
                  patches, runlog, force, nworkers, heap, psgrn_input >>

\* the SIGINT handler of run(): os.kill(proc.pid, SIGTERM);
\* interrupted.append(True).  While proc is not yet bound the handler fails
\* with NameError; once the child has been waited for, its pid is stale and
\* os.kill either fails (ProcessLookupError) or signals whatever process
\* reuses the pid.  An exception of the handler surfaces inside the try
\* block of run(), whose finally clause restores the handler.
run_signal_handler(w) ==
  /\ \/ /\ proc[w] = "unbound"
        /\ handler' = [handler EXCEPT ![w] = "original"]
        /\ Raise(w, "NameError")
        /\ UNCHANGED << sigterm, run_interrupted >>
     \/ /\ proc[w] = "running"
        /\ sigterm' = [sigterm EXCEPT ![w] = TRUE]
        /\ run_interrupted' = [run_interrupted EXCEPT ![w] = TRUE]
        /\ UNCHANGED << handler, pc, exc >>
     \/ /\ proc[w] = "reaped"
        /\ \/ /\ handler' = [handler EXCEPT ![w] = "original"]
              /\ Raise(w, "ProcessLookupError")
              /\ UNCHANGED run_interrupted
           \/ /\ run_interrupted' = [run_interrupted EXCEPT ![w] = TRUE]
              /\ UNCHANGED << handler, pc, exc >>
        /\ UNCHANGED sigterm
  /\ UNCHANGED wb_interrupted

\* a handler that records the interruption and raises at once
wb_signal_handler_raising(w) ==
  /\ wb_interrupted' = [wb_interrupted EXCEPT ![w] = TRUE]
  /\ Raise(w, "KeyboardInterrupt")
  /\ UNCHANGED << handler, sigterm, run_interrupted >>

\* the SIGINT handler of work_block: interrupted.append(True)
wb_signal_handler(w) ==
  /\ wb_interrupted' = [wb_interrupted EXCEPT ![w] = TRUE]
  /\ UNCHANGED << handler, pc, exc, sigterm, run_interrupted >>

\* the handler in effect around work_block: raises KeyboardInterrupt
default_int_handler(w) ==
  /\ Raise(w, "KeyboardInterrupt")
  /\ UNCHANGED << handler, sigterm, run_interrupted, wb_interrupted >>

InWorkBlock(w) == pc[w] \notin {"idle", "aborted", "returned"}

\* a SIGINT is delivered to worker process w
sigint(w) ==
  /\ InWorkBlock(w)
  /\ nsig < SigintBudget
  /\ nsig' = nsig + 1
  /\ CASE handler[w] = "run" -> run_signal_handler(w)
       [] handler[w] = "work_block" -> wb_signal_handler(w)
       [] OTHER -> default_int_handler(w)
  /\ UNCHANGED << phase, done, store, lockOwner, step, iblock, imt, itr, cwd,
                  old_wd, proc, result, runner_output, duplicate_inserts,
                  nlock, nunlock, nput, nfail, nresume, ndup, putlog, call, ret,
                  patches, runlog, force, nworkers, heap,
                  psgrn_input >>

\* --------------------------------------------------------------- work_block
\* block extents, copies of the configurations, the "Starting step" log
\* line; for step 0 the psgrn grids and the call of PsGrnRunner.run
wb_begin(w) ==
  /\ pc[w] = "wb_begin"
  /\ nlock' = [nlock EXCEPT ![w] = 0]
  /\ nunlock' = [nunlock EXCEPT ![w] = 0]
  /\ nput' = [nput EXCEPT ![w] = 0]
  /\ patches' = [patches EXCEPT ![w] = config_patches]
  /\ runlog' = [runlog EXCEPT ![w] = <<>>]
  /\ IF step[w] = 0
       THEN /\ pc' = [pc EXCEPT ![w] = "run_write_input"]
            /\ UNCHANGED imt
       ELSE /\ pc' = [pc EXCEPT ![w] = "wb_patches"]
            /\ imt' = [imt EXCEPT ![w] = 1]
  /\ UNCHANGED << phase, done, store, lockOwner, step, iblock, itr, exc, cwd,
                  old_wd, handler, run_interrupted, wb_interrupted, proc,
                  sigterm, result, runner_output, duplicate_inserts, nsig,
                  nfail, nresume, ndup, putlog, call, ret, force, nworkers, heap, psgrn_input >>

\* nullf of work_block, the nullification factor of the material of the
\* block: the materials are named by their depth sample, and the factor of
\* depth sample i is written -(i + 1)
block_nullfs ==
  [ib \in all_block_indices(1) |->
     0 - (work_block_extents(ns, block_size(1), ib).moduli.entry + 1)]

block_nullf(ib) == block_nullfs[ib]

\* the patches of the component added to those already in cc
wb_patches_accumulate(w) ==
  /\ pc[w] = "wb_patches"
  /\ patches' = [patches EXCEPT ![w] =
       @ \o PsCmpMomentTensor_to_rfs(gfmapping[imt[w]].mt, block_nullf(iblock[w])).rfs]
  /\ pc' = [pc EXCEPT ![w] = "run_write_input"]
  /\ UNCHANGED << phase, done, store, lockOwner, step, iblock, imt, itr, exc,
                  cwd, old_wd, handler, run_interrupted, wb_interrupted, proc,
                  sigterm, result, runner_output, duplicate_inserts, nlock,
                  nunlock, nput, nsig, nfail, nresume, ndup, putlog, call, ret,
                  runlog, force, nworkers, heap, psgrn_input >>

\* cc.rectangular_source_patches = [], extended with pmt.to_rfs(nullf) for
\* the one idx of the component, and the call of runner.run(cc)
wb_patches(w) ==
  /\ pc[w] = "wb_patches"
  /\ patches' = [patches EXCEPT ![w] =
       <<>> \o PsCmpMomentTensor_to_rfs(gfmapping[imt[w]].mt, block_nullf(iblock[w])).rfs]
  /\ pc' = [pc EXCEPT ![w] = "run_write_input"]
  /\ UNCHANGED << phase, done, store, lockOwner, step, iblock, imt, itr, exc,
                  cwd, old_wd, handler, run_interrupted, wb_interrupted, proc,
                  sigterm, result, runner_output, duplicate_inserts, nlock,
                  nunlock, nput, nsig, nfail, nresume, ndup, putlog, call, ret,
                  runlog, force, nworkers, heap, psgrn_input >>

\* runner.get_traces() of the component the worker is at
rawtraces(w) ==
  LET e == get_block_extents(step[w], iblock[w])
  IN  get_traces(e.sz, e.firstx, e.nx, gfmapping[imt[w]].mt)

\* rawtraces = runner.get_traces()
wb_get_traces(w) ==
  /\ pc[w] = "wb_get_traces"
  /\ IF get_results_exc(get_block_extents(step[w], iblock[w]).nx) = "none"
       THEN /\ pc' = [pc EXCEPT ![w] = "wb_signal"]
            /\ UNCHANGED exc
       ELSE Raise(w, get_results_exc(get_block_extents(step[w], iblock[w]).nx))
  /\ UNCHANGED << phase, done, store, lockOwner, step, iblock, imt, itr,
                  cwd, old_wd, handler, run_interrupted, wb_interrupted, proc,
                  sigterm, result, runner_output, duplicate_inserts, nlock,
                  nunlock, nput, nsig, nfail, nresume, ndup, putlog, call, ret,
                  patches, runlog, force, nworkers, heap, psgrn_input >>

\* interrupted = []; original = signal.signal(SIGINT, signal_handler)
wb_signal(w) ==
  /\ pc[w] = "wb_signal"
  /\ wb_interrupted' = [wb_interrupted EXCEPT ![w] = FALSE]
  /\ handler' = [handler EXCEPT ![w] = "work_block"]
  /\ pc' = [pc EXCEPT ![w] = "wb_lock"]
  /\ UNCHANGED << phase, done, store, lockOwner, step, iblock, imt, itr, exc,
                  cwd, old_wd, run_interrupted, proc, sigterm, result,
                  runner_output, duplicate_inserts, nlock, nunlock, nput,
                  nsig, nfail, nresume, ndup, putlog, call, ret,
                  patches, runlog, force, nworkers, heap, psgrn_input >>

\* Store.lock: waits until the write lock is free and takes it
store_lock(w) ==
  /\ lockOwner = 0
  /\ lockOwner' = w

\* Store.unlock
store_unlock(w) ==
  lockOwner' = IF lockOwner = w THEN 0 ELSE lockOwner

\* the write loop entered without the lock
wb_lock_skipped(w) ==
  /\ pc[w] = "wb_lock"
  /\ duplicate_inserts' = [duplicate_inserts EXCEPT ![w] = 0]
  /\ itr' = [itr EXCEPT ![w] = 1]
  /\ pc' = [pc EXCEPT ![w] = "wb_put"]
  /\ UNCHANGED << phase, done, store, lockOwner, step, iblock, imt, exc, cwd,
                  old_wd, handler, run_interrupted, wb_interrupted, proc,
                  sigterm, result, runner_output, nlock, nunlock, nput, nsig,
                  nfail, nresume, ndup, putlog, call, ret,
                  patches, runlog, force, nworkers, heap, psgrn_input >>

\* the lock taken for the first component only
wb_lock_once(w) ==
  /\ pc[w] = "wb_lock"
  /\ IF imt[w] = 1
       THEN /\ store_lock(w)
            /\ nlock' = [nlock EXCEPT ![w] = @ + 1]
       ELSE UNCHANGED << lockOwner, nlock >>
  /\ duplicate_inserts' = [duplicate_inserts EXCEPT ![w] = 0]
  /\ itr' = [itr EXCEPT ![w] = 1]
  /\ pc' = [pc EXCEPT ![w] = "wb_put"]
  /\ UNCHANGED << phase, done, store, step, iblock, imt, exc, cwd, old_wd,
                  handler, run_interrupted, wb_interrupted, proc, sigterm,
                  result, runner_output, nunlock, nput, nsig, nfail, nresume,
                  ndup, putlog, call, ret,
                  patches, runlog, force, nworkers, heap, psgrn_input >>

\* self.store.lock(); duplicate_inserts = 0
wb_lock(w) ==
  /\ pc[w] = "wb_lock"
  /\ store_lock(w)
  /\ nlock' = [nlock EXCEPT ![w] = @ + 1]
  /\ duplicate_inserts' = [duplicate_inserts EXCEPT ![w] = 0]
  /\ itr' = [itr EXCEPT ![w] = 1]
  /\ pc' = [pc EXCEPT ![w] = "wb_put"]
  /\ UNCHANGED << phase, done, store, step, iblock, imt, exc, cwd, old_wd,
                  handler, run_interrupted, wb_interrupted, proc, sigterm,
                  result, runner_output, nunlock, nput, nsig, nfail, nresume,
                  ndup, putlog, call, ret,
                  patches, runlog, force, nworkers, heap, psgrn_input >>

\* a duplicate answered by writing the new trace over the stored one
put_trace_overwrite(st, sz, gfmap, tr) ==
  IF tr.channel \in DOMAIN gfmap
    THEN LET args == <<sz, tr.distance, gfmap[tr.channel][1]>>
             gf_tr == scale(tr, gfmap[tr.channel][2])
             r == store_put(st, args, gf_tr)
         IN  [store |-> [r.store EXCEPT ![args] = gf_tr], outcome |-> r.outcome]
    ELSE [store |-> st, outcome |-> "skipped"]

\* only the horizontal channel of the component is put
put_trace_horizontal(st, sz, gfmap, tr) ==
  IF tr.channel \in DOMAIN gfmap /\ tr.channel # "ud"
    THEN LET args == <<sz, tr.distance, gfmap[tr.channel][1]>>
             gf_tr == scale(tr, gfmap[tr.channel][2])
         IN  store_put(st, args, gf_tr)
    ELSE [store |-> st, outcome |-> "skipped"]

\* one pass of the body of "for itr, tr in enumerate(rawtraces)" over a
\* store st: the new store and what the put, if any, answered
put_trace(st, sz, gfmap, tr) ==
  IF tr.channel \in DOMAIN gfmap
    THEN LET args == <<sz, tr.distance, gfmap[tr.channel][1]>>
             gf_tr == scale(tr, gfmap[tr.channel][2])
         IN  store_put(st, args, gf_tr)
    ELSE [store |-> st, outcome |-> "skipped"]

\* except gf.store.DuplicateInsert: duplicate_inserts += 1, and the loop
\* goes on with the next trace (last: the trace was the last one)
on_duplicate_raise(w, last) ==
  /\ exc' = [exc EXCEPT ![w] = "DuplicateInsert"]
  /\ pc' = [pc EXCEPT ![w] = "wb_finally"]
  /\ ndup' = 1
  /\ UNCHANGED << duplicate_inserts, itr >>

on_duplicate_break(w, last) ==
  /\ duplicate_inserts' = [duplicate_inserts EXCEPT ![w] = @ + 1]
  /\ ndup' = 1
  /\ pc' = [pc EXCEPT ![w] = "wb_finally"]
  /\ UNCHANGED << exc, itr >>

on_duplicate(w, last) ==
  /\ duplicate_inserts' = [duplicate_inserts EXCEPT ![w] = @ + 1]
  /\ ndup' = 1
  /\ itr' = [itr EXCEPT ![w] = IF last THEN @ ELSE @ + 1]
  /\ pc' = [pc EXCEPT ![w] = IF last THEN "wb_finally" ELSE "wb_put"]
  /\ UNCHANGED exc

\* the write loop, one trace per step.  A put that fails for another reason
\* than a duplicate (store I/O) leaves the loop through the finally clause.
wb_put(w) ==
  /\ pc[w] = "wb_put"
  /\ LET e == get_block_extents(step[w], iblock[w])
         tr == rawtraces(w)[itr[w]]
         r == put_trace(store, e.sz, gfmapping[imt[w]].gfmap, tr)
         last == itr[w] = Len(rawtraces(w))
     IN  \/ /\ store' = r.store
            /\ nput' = [nput EXCEPT ![w] = @ + (IF r.outcome = "skipped" THEN 0 ELSE 1)]
            /\ IF r.outcome = "DuplicateInsert"
                 THEN on_duplicate(w, last)
                 ELSE /\ itr' = [itr EXCEPT ![w] = IF last THEN @ ELSE @ + 1]
                      /\ pc' = [pc EXCEPT ![w] = IF last THEN "wb_finally" ELSE "wb_put"]
                      /\ UNCHANGED << exc, duplicate_inserts, ndup >>
            /\ UNCHANGED nfail
         \/ /\ r.outcome # "skipped"
            /\ nfail < FailBudget
            /\ nfail' = nfail + 1
            /\ nput' = [nput EXCEPT ![w] = @ + 1]
            /\ exc' = [exc EXCEPT ![w] = "StoreError"]
            /\ pc' = [pc EXCEPT ![w] = "wb_finally"]
            /\ UNCHANGED << store, duplicate_inserts, ndup, itr >>
  /\ UNCHANGED << phase, done, lockOwner, step, iblock, imt, cwd, old_wd,
                  handler, run_interrupted, wb_interrupted, proc, sigterm,
                  result, runner_output, nlock, nunlock, nsig, nresume,
                  putlog, call, ret,
                  patches, runlog, force, nworkers, heap, psgrn_input >>

\* the finally clause entered only when the loop ended without an exception
wb_finally_after_try(w) ==
  /\ pc[w] = "wb_finally"
  /\ IF exc[w] = "none"
       THEN /\ store_unlock(w)
            /\ nunlock' = [nunlock EXCEPT ![w] = @ + 1]
            /\ handler' = [handler EXCEPT ![w] = "original"]
       ELSE UNCHANGED << lockOwner, nunlock, handler >>
  /\ pc' = [pc EXCEPT ![w] = IF exc[w] # "none" THEN "aborted" ELSE "wb_check"]
  /\ UNCHANGED << phase, done, store, step, iblock, imt, itr, exc, cwd,
                  old_wd, run_interrupted, wb_interrupted, proc, sigterm,
                  result, runner_output, duplicate_inserts, nlock, nput, nsig,
                  nfail, nresume, ndup, putlog, call, ret,
                  patches, runlog, force, nworkers, heap, psgrn_input >>

\* the lock kept from one component of the block to the next
wb_finally_keep_lock(w) ==
  /\ pc[w] = "wb_finally"
  /\ IF exc[w] = "none" /\ imt[w] < NComp
       THEN UNCHANGED << lockOwner, nunlock >>
       ELSE /\ store_unlock(w)
            /\ nunlock' = [nunlock EXCEPT ![w] = @ + 1]
  /\ handler' = [handler EXCEPT ![w] = "original"]
  /\ pc' = [pc EXCEPT ![w] = IF exc[w] # "none" THEN "aborted" ELSE "wb_check"]
  /\ UNCHANGED << phase, done, store, step, iblock, imt, itr, exc, cwd,
                  old_wd, run_interrupted, wb_interrupted, proc, sigterm,
                  result, runner_output, duplicate_inserts, nlock, nput, nsig,
                  nfail, nresume, ndup, putlog, call, ret,
                  patches, runlog, force, nworkers, heap, psgrn_input >>

\* finally: the duplicates warning, self.store.unlock(),
\* signal.signal(SIGINT, original); an exception of the loop goes on up
wb_finally(w) ==
  /\ pc[w] = "wb_finally"
  /\ store_unlock(w)
  /\ nunlock' = [nunlock EXCEPT ![w] = @ + 1]
  /\ handler' = [handler EXCEPT ![w] = "original"]
  /\ pc' = [pc EXCEPT ![w] = IF exc[w] # "none" THEN "aborted" ELSE "wb_check"]
  /\ UNCHANGED << phase, done, store, step, iblock, imt, itr, exc, cwd,
                  old_wd, run_interrupted, wb_interrupted, proc, sigterm,
                  result, runner_output, duplicate_inserts, nlock, nput, nsig,
                  nfail, nresume, ndup, putlog, call, ret,
                  patches, runlog, force, nworkers, heap, psgrn_input >>

\* if interrupted: raise KeyboardInterrupt(); else the next component
wb_check(w) ==
  /\ pc[w] = "wb_check"
  /\ IF wb_interrupted[w]
       THEN /\ Raise(w, "KeyboardInterrupt")
            /\ UNCHANGED imt
       ELSE /\ pc' = [pc EXCEPT ![w] = IF imt[w] < NComp THEN "wb_patches" ELSE "wb_done"]
            /\ imt' = [imt EXCEPT ![w] = IF imt[w] < NComp THEN @ + 1 ELSE @]
            /\ UNCHANGED exc
  /\ UNCHANGED << phase, done, store, lockOwner, step, iblock, itr, cwd,
                  old_wd, handler, run_interrupted, wb_interrupted, proc,
                  sigterm, result, runner_output, duplicate_inserts, nlock,
                  nunlock, nput, nsig, nfail, nresume, ndup, putlog, call, ret,
                  patches, runlog, force, nworkers, heap,
                  psgrn_input >>

\* the "Done with step" log line; work_block returns
wb_done(w) ==
  /\ pc[w] = "wb_done"
  /\ pc' = [pc EXCEPT ![w] = "returned"]
  /\ UNCHANGED << phase, done, store, lockOwner, step, iblock, imt, itr, exc,
                  cwd, old_wd, handler, run_interrupted, wb_interrupted, proc,
                  sigterm, result, runner_output, duplicate_inserts, nlock,
                  nunlock, nput, nsig, nfail, nresume, ndup, putlog, call, ret,
                  patches, runlog, force, nworkers, heap,
                  psgrn_input >>

\* -------------------------------------------------------------------- build
\* The build of a store: step 0 (one psgrn block), then the step-1 blocks,
\* handed to the workers in order.  Finished blocks are recorded; a build
\* entered again with continue_ skips the recorded blocks.
current_step == IF phase = "STEP0_RUNNING" THEN 0 ELSE 1

Running == phase \in {"STEP0_RUNNING", "STEP1_RUNNING"}

in_flight(s) == {iblock[w] : w \in {v \in Workers : pc[v] # "idle" /\ step[v] = s}}

pending(s) == {ib \in all_block_indices(s) : <<s, ib>> \notin done} \ in_flight(s)

lowest(S) == CHOOSE x \in S : \A y \in S : x <= y

build_start ==
  /\ phase = "INIT"
  /\ phase' = "STEP0_RUNNING"
  /\ UNCHANGED << done, store, lockOwner, pc, step, iblock, imt, itr, exc,
                  cwd, old_wd, handler, run_interrupted, wb_interrupted, proc,
                  sigterm, result, runner_output, duplicate_inserts, nlock,
                  nunlock, nput, nsig, nfail, nresume, ndup, putlog, call, ret,
                  patches, runlog, force, nworkers, heap,
                  psgrn_input >>

\* the first free worker of the pool constructs the builder for the next block and enters
\* work_block; nothing new is started once a block has failed
build_assign(w) ==
  /\ Running
  /\ pc[w] = "idle"
  /\ w <= nworkers
  /\ \A v \in 1..(w - 1) : pc[v] # "idle"
  /\ \A v \in Workers : pc[v] # "aborted"
  /\ pending(current_step) # {}
  /\ step' = [step EXCEPT ![w] = current_step]
  /\ iblock' = [iblock EXCEPT ![w] = lowest(pending(current_step))]
  /\ pc' = [pc EXCEPT ![w] = "wb_begin"]
  /\ UNCHANGED << phase, done, store, lockOwner, imt, itr, exc, cwd, old_wd,
                  handler, run_interrupted, wb_interrupted, proc, sigterm,
                  result, runner_output, duplicate_inserts, nlock, nunlock,
                  nput, nsig, nfail, nresume, ndup, putlog, call, ret,
                  patches, runlog, force,
                  nworkers, heap, psgrn_input >>

\* a block that returned is recorded as finished
build_collect(w) ==
  /\ Running
  /\ pc[w] = "returned"
  /\ done' = done \cup {<<step[w], iblock[w]>>}
  /\ pc' = [pc EXCEPT ![w] = "idle"]
  /\ UNCHANGED << phase, store, lockOwner, step, iblock, imt, itr, exc, cwd,
                  old_wd, handler, run_interrupted, wb_interrupted, proc,
                  sigterm, result, runner_output, duplicate_inserts, nlock,
                  nunlock, nput, nsig, nfail, nresume, ndup, putlog, call, ret,
                  patches, runlog, force, nworkers, heap,
                  psgrn_input >>

step_finished(s) == \A ib \in all_block_indices(s) : <<s, ib>> \in done

\* step 1 starts when step 0 has succeeded; the build is done after step 1
build_next_step ==
  /\ Running
  /\ \A w \in Workers : pc[w] = "idle"
  /\ step_finished(current_step)
  /\ phase' = IF current_step + 1 < nsteps THEN "STEP1_RUNNING" ELSE "DONE"
  /\ UNCHANGED << done, store, lockOwner, pc, step, iblock, imt, itr, exc,
                  cwd, old_wd, handler, run_interrupted, wb_interrupted, proc,
                  sigterm, result, runner_output, duplicate_inserts, nlock,
                  nunlock, nput, nsig, nfail, nresume, ndup, putlog, call, ret,
                  patches, runlog, force, nworkers, heap,
                  psgrn_input >>

\* a block has raised and no other block is still being worked
build_abort ==
  /\ Running
  /\ \E w \in Workers : pc[w] = "aborted"
  /\ \A w \in Workers : ~InWorkBlock(w)
  /\ phase' = "ABORTED"
  /\ UNCHANGED << done, store, lockOwner, pc, step, iblock, imt, itr, exc,
                  cwd, old_wd, handler, run_interrupted, wb_interrupted, proc,
                  sigterm, result, runner_output, duplicate_inserts, nlock,
                  nunlock, nput, nsig, nfail, nresume, ndup, putlog, call, ret,
                  patches, runlog, force, nworkers, heap,
                  psgrn_input >>

FreshWorkers(v) == [w \in Workers |-> v]

\* build(..., continue_=True) on the aborted store: new worker processes,
\* the recorded blocks are skipped
build_continue ==
  /\ phase = "ABORTED"
  /\ nresume < MaxResumes
  /\ nresume' = nresume + 1
  /\ phase' = IF step_finished(0) THEN "STEP1_RUNNING" ELSE "STEP0_RUNNING"
  /\ pc' = FreshWorkers("idle")
  /\ exc' = FreshWorkers("none")
  /\ cwd' = FreshWorkers("start")
  /\ old_wd' = FreshWorkers("start")
  /\ handler' = FreshWorkers("original")
  /\ run_interrupted' = FreshWorkers(FALSE)
  /\ wb_interrupted' = FreshWorkers(FALSE)
  /\ proc' = FreshWorkers("unbound")
  /\ sigterm' = FreshWorkers(FALSE)
  /\ result' = FreshWorkers(NoResult)
  /\ runner_output' = FreshWorkers("none")
  /\ step' = FreshWorkers(0)
  /\ iblock' = FreshWorkers(0)
  /\ imt' = FreshWorkers(0)
  /\ itr' = FreshWorkers(0)
  /\ duplicate_inserts' = FreshWorkers(0)
  /\ nlock' = FreshWorkers(0)
  /\ nunlock' = FreshWorkers(0)
  /\ nput' = FreshWorkers(0)
  /\ patches' = FreshWorkers(<<>>)
  /\ runlog' = FreshWorkers(<<>>)
  /\ UNCHANGED << done, store, lockOwner, nsig, nfail, ndup, putlog, call,
                  ret, force, nworkers, heap, psgrn_input >>

\* PsCmpMomentTensor(**kwargs): the attributes of the object, the ones not
\* given taking the defaults of the class
PsCmpMomentTensor(kwargs) ==
  [lat |-> kwargs.lat, lon |-> kwargs.lon, depth |-> kwargs.depth,
   length |-> kwargs.length, width |-> kwargs.width,
   torigin |-> kwargs.torigin, idx |-> kwargs.idx]

\* the objects before any decomposition: the tables as the module defines
\* them and a moment tensor of the class defaults (length and width 1 km)
Heap0 ==
  [MTIso |-> MTIso, MTDev |-> MTDev,
   pmt |-> PsCmpMomentTensor([lat |-> 0, lon |-> 0, depth |-> 0,
                              length |-> 1000, width |-> 1000,
                              torigin |-> 0, idx |-> "nn"])]

\* ------------------------------------------------------------ specification
\* a store that has just been initialised; no worker process has started
Fresh ==
  /\ phase = "INIT"
  /\ done = {}
  /\ store = EmptyStore
  /\ lockOwner = 0
  /\ pc = FreshWorkers("idle")
  /\ step = FreshWorkers(0)
  /\ iblock = FreshWorkers(0)
  /\ imt = FreshWorkers(0)
  /\ itr = FreshWorkers(0)
  /\ exc = FreshWorkers("none")
  /\ cwd = FreshWorkers("start")
  /\ old_wd = FreshWorkers("start")
  /\ handler = FreshWorkers("original")
  /\ run_interrupted = FreshWorkers(FALSE)
  /\ wb_interrupted = FreshWorkers(FALSE)
  /\ proc = FreshWorkers("unbound")
  /\ sigterm = FreshWorkers(FALSE)
  /\ result = FreshWorkers(NoResult)
  /\ runner_output = FreshWorkers("none")
  /\ duplicate_inserts = FreshWorkers(0)
  /\ nlock = FreshWorkers(0)
  /\ nunlock = FreshWorkers(0)
  /\ nput = FreshWorkers(0)
  /\ patches = FreshWorkers(<<>>)
  /\ runlog = FreshWorkers(<<>>)
  /\ nsig = 0
  /\ nfail = 0
  /\ nresume = 0
  /\ ndup = 0
  /\ putlog = <<>>
  /\ psgrn_input = FALSE
  /\ heap = Heap0

\* build(store_dir, force=..., nworkers=1), entered again with continue_
\* after an abort
Init ==
  /\ Fresh
  /\ force \in BOOLEAN
  /\ nworkers = 1
  /\ call = NoCall
  /\ ret = NoCall

Next ==
  \/ build_start
  \/ build_next_step
  \/ build_abort
  \/ build_continue
  \/ \E w \in Workers :
       \/ build_assign(w)
       \/ build_collect(w)
       \/ wb_begin(w)
       \/ wb_patches(w)
       \/ run_write_input(w)
       \/ run_open_input(w)
       \/ run_chdir(w)
       \/ run_signal(w)
       \/ run_popen(w)
       \/ run_communicate(w)
       \/ run_finally(w)
       \/ run_check(w)
       \/ wb_get_traces(w)
       \/ wb_signal(w)
       \/ wb_lock(w)
       \/ wb_put(w)
       \/ wb_finally(w)
       \/ wb_check(w)
       \/ wb_done(w)
       \/ sigint(w)

Spec == Init /\ [][Next]_vars

\* A build with a pool of two workers.  It is followed until it is done or
\* aborted; it is not entered again.
InitPar ==
  /\ Fresh
  /\ force = FALSE
  /\ nworkers = 2
  /\ call = NoCall
  /\ ret = NoCall

NextPar ==
  \/ build_start
  \/ build_next_step
  \/ build_abort
  \/ \E w \in Workers :
       \/ build_assign(w)
       \/ build_collect(w)
       \/ wb_begin(w)
       \/ wb_patches(w)
       \/ run_write_input(w)
       \/ run_open_input(w)
       \/ run_chdir(w)
       \/ run_signal(w)
       \/ run_popen(w)
       \/ run_communicate(w)
       \/ run_finally(w)
       \/ run_check(w)
       \/ wb_get_traces(w)
       \/ wb_signal(w)
       \/ wb_lock(w)
       \/ wb_put(w)
       \/ wb_finally(w)
       \/ wb_check(w)
       \/ wb_done(w)
       \/ sigint(w)

SpecPar == InitPar /\ [][NextPar]_vars

\* ------------------------------------------------------- store-level puts
\* The body of the write loop of work_block applied to traces of any
\* content, for the component nn at the first source depth.
PutTraces ==
  [channel : {pscmp_displ_names[i] : i \in 1..3},
   distance : 0..(NDist - 1),
   ydata : {<<1>>, <<2>>}]

put_call ==
  /\ Len(putlog) < MaxPuts
  /\ \E tr \in PutTraces :
       LET gfmap == gfmapping[1].gfmap
           r == put_trace(store, 0, gfmap, tr)
       IN  /\ r.outcome # "skipped"
           /\ store' = r.store
           /\ putlog' = Append(putlog,
                  [args |-> <<0, tr.distance, gfmap[tr.channel][1]>>,
                   value |-> scale(tr, gfmap[tr.channel][2]),
                   outcome |-> r.outcome])
           /\ duplicate_inserts' =
                IF r.outcome = "DuplicateInsert"
                  THEN [duplicate_inserts EXCEPT ![1] = @ + 1]
                  ELSE duplicate_inserts
  /\ UNCHANGED << phase, done, lockOwner, pc, step, iblock, imt, itr, exc,
                  cwd, old_wd, handler, run_interrupted, wb_interrupted, proc,
                  sigterm, result, runner_output, nlock, nunlock, nput, nsig,
                  nfail, nresume, ndup, call, ret,
                  patches, runlog, force, nworkers, heap,
                  psgrn_input >>

InitPut ==
  /\ Fresh
  /\ force = FALSE
  /\ nworkers = 1
  /\ call = NoCall
  /\ ret = NoCall

NextPut == put_call

SpecPut == InitPut /\ [][NextPut]_vars

\* ------------------------------------------------------ partition of a grid
\* A builder constructed for a store configuration of either layout, for a
\* step, with or without a block size, and asked for all its blocks.
Grids ==
  UNION {[1..n -> 1..MaxN] : n \in {2, 3}}

BlockSizes == {<<>>} \cup [1..3 -> 1..MaxBlock]

GridCalls == [op : {"blocks"}, ns : Grids, step : 0..(nsteps - 1), block_size : BlockSizes]

blocks_call ==
  /\ call.op = "blocks"
  /\ ret = NoCall
  /\ LET bs == builder_block_size(call.ns, call.step, call.block_size)
         n == builder_nblocks(call.ns, bs)
     IN  ret' = [op |-> "blocks", block_size |-> bs, nblocks |-> n,
                 blocks |-> [ib \in 0..(n - 1) |-> get_block(call.ns, bs, ib)],
                 work |-> [ib \in 0..(n - 1) |-> work_block_extents(call.ns, bs, ib)]]
  /\ UNCHANGED << phase, done, store, lockOwner, pc, step, iblock, imt, itr,
                  exc, cwd, old_wd, handler, run_interrupted, wb_interrupted,
                  proc, sigterm, result, runner_output, duplicate_inserts,
                  nlock, nunlock, nput, nsig, nfail, nresume, ndup, putlog,
                  call, patches, runlog, force, nworkers, heap, psgrn_input >>

InitGrid ==
  /\ Fresh
  /\ force = FALSE
  /\ nworkers = 1
  /\ call \in GridCalls
  /\ ret = NoCall

NextGrid == blocks_call

SpecGrid == InitGrid /\ [][NextGrid]_vars

\* --------------------------------------------- moment tensor decomposition
\* PsCmpMomentTensor.to_rfs for every idx string of interest and a range of
\* nullifications (the product 1.0 * nullification is exact for every float)
RfsCalls ==
  [op : {"to_rfs"},
   idx : comps(MTIso) \cup comps(MTDev) \cup {"xx", "en", "NN", ""},
   nullification : (0 - MaxNull)..MaxNull]

to_rfs_call ==
  /\ call.op = "to_rfs"
  /\ ret = NoCall
  /\ LET r == PsCmpMomentTensor_to_rfs(call.idx, call.nullification)
     IN  ret' = [op |-> "to_rfs", exc |-> r.exc, rfs |-> r.rfs]
  /\ UNCHANGED << phase, done, store, lockOwner, pc, step, iblock, imt, itr,
                  exc, cwd, old_wd, handler, run_interrupted, wb_interrupted,
                  proc, sigterm, result, runner_output, duplicate_inserts,
                  nlock, nunlock, nput, nsig, nfail, nresume, ndup, putlog,
                  call, patches, runlog, force, nworkers, heap, psgrn_input >>

InitRfs ==
  /\ Fresh
  /\ force = FALSE
  /\ nworkers = 1
  /\ call \in RfsCalls
  /\ ret = NoCall

NextRfs == to_rfs_call

SpecRfs == InitRfs /\ [][NextRfs]_vars

\* ------------------------------------------- decompositions one after another
\* to_rfs as work_block calls it, pmt = PsCmpMomentTensor(...) followed by
\* pmt.to_rfs(nullf), on the objects it can reach: the tables MTIso and
\* MTDev of the module and the requesting object.  A deep copy is a value
\* of its own: what is done to it leaves the objects alone.

\* PsCmpRectangularSource(**kwargs) of to_rfs: kwargs are the attributes of
\* the requester without idx and _latlon, updated with the table entry
rectangular_source(kwargs, params) ==
  [lat |-> kwargs.lat, lon |-> kwargs.lon, depth |-> kwargs.depth,
   length |-> kwargs.length, width |-> kwargs.width,
   torigin |-> kwargs.torigin,
   strike |-> params.strike, dip |-> params.dip, rake |-> params.rake,
   slip |-> params.slip, opening |-> params.opening]

\* the loop of PsCmpTensileSF.to_rfs with params = mt in place of the deep
\* copy: the nullified opening is written into the entry of MTIso
RECURSIVE tsf_loop_shared(_, _, _, _, _)
tsf_loop_shared(h, self, nullification, i, cmpd) ==
  IF i > Len(h.MTIso)
    THEN [exc |-> "none", rfs |-> cmpd, heap |-> h]
    ELSE LET mt == h.MTIso[i]
             params == IF mt.comp # self.idx
                         THEN [mt EXCEPT !.opening = @ * nullification]
                         ELSE mt
         IN  tsf_loop_shared([h EXCEPT !.MTIso[i] = params], self,
                             nullification, i + 1,
                             Append(cmpd, rectangular_source(self, params)))

\* the loop of PsCmpTensileSF.to_rfs over MTIso.items(), entries 1..i - 1
\* done: params = copy.deepcopy(mt); params['opening'] *= nullification for
\* comp != self.idx; kwargs = copy.deepcopy(self.__dict__)
RECURSIVE tsf_loop(_, _, _, _, _)
tsf_loop(h, self, nullification, i, cmpd) ==
  IF i > Len(h.MTIso)
    THEN [exc |-> "none", rfs |-> cmpd, heap |-> h]
    ELSE LET mt == h.MTIso[i]
             params == IF mt.comp # self.idx
                         THEN [mt EXCEPT !.opening = @ * nullification]
                         ELSE mt
         IN  tsf_loop(h, self, nullification, i + 1,
                      Append(cmpd, rectangular_source(self, params)))

\* the entries of MTIso changed by the call
tsf_to_rfs_shared(h, self, nullification) ==
  tsf_loop_shared(h, self, nullification, 1, <<>>)

\* PsCmpTensileSF.to_rfs
tsf_to_rfs(h, self, nullification) == tsf_loop(h, self, nullification, 1, <<>>)

\* PsCmpShearSF.to_rfs: kwargs = copy.deepcopy(self.__dict__);
\* kwargs.update(MTDev[self.idx])
ssf_to_rfs(h, self) ==
  LET i == CHOOSE j \in DOMAIN h.MTDev : h.MTDev[j].comp = self.idx
  IN  [exc |-> "none", rfs |-> << rectangular_source(self, h.MTDev[i]) >>,
       heap |-> h]

\* PsCmpMomentTensor.to_rfs of the object h.pmt: kwargs =
\* copy.deepcopy(self.__dict__), then PsCmpTensileSF(**kwargs) or
\* PsCmpShearSF(**kwargs), objects of their own
pmt_to_rfs(h, nullification) ==
  LET kwargs == h.pmt
  IN  IF kwargs.idx \in comps(h.MTIso) THEN tsf_to_rfs(h, kwargs, nullification)
      ELSE IF kwargs.idx \in comps(h.MTDev) THEN ssf_to_rfs(h, kwargs)
      ELSE [exc |-> "Exception", rfs |-> <<>>, heap |-> h]

\* the requesters: position, size and origin time given to
\* PsCmpMomentTensor
Requesters ==
  { [lat |-> 1, lon |-> 0, depth |-> 1000, length |-> 2, width |-> 2, torigin |-> 0],
    [lat |-> 0, lon |-> 3, depth |-> 0, length |-> 1, width |-> 4, torigin |-> 5] }

MTCalls ==
  [op : {"pmt_to_rfs"}, requester : Requesters,
   idx : comps(MTIso) \cup comps(MTDev) \cup {"xx"},
   nullification : {0 - MaxNull, -1, 2}]

\* calls made so far
ncalls == IF ret = NoCall THEN 0 ELSE ret.n

\* pmt = PsCmpMomentTensor(lat=..., idx=idx); pmt.to_rfs(nullification);
\* what the call before returned is kept beside what this one returns, and
\* the arguments of the next call are open
pmt_to_rfs_call ==
  /\ call.op = "pmt_to_rfs"
  /\ ncalls < MaxCalls
  /\ LET kw == call.requester
         pmt == PsCmpMomentTensor(
                  [lat |-> kw.lat, lon |-> kw.lon, depth |-> kw.depth,
                   length |-> kw.length, width |-> kw.width,
                   torigin |-> kw.torigin, idx |-> call.idx])
         r == pmt_to_rfs([heap EXCEPT !.pmt = pmt], call.nullification)
     IN  /\ heap' = r.heap
         /\ ret' = [op |-> "pmt_to_rfs", args |-> call, pmt |-> pmt,
                    exc |-> r.exc, rfs |-> r.rfs, n |-> ncalls + 1,
                    before |-> IF ret = NoCall THEN NoCall
                               ELSE [op |-> "pmt_to_rfs", args |-> ret.args,
                                     exc |-> ret.exc, rfs |-> ret.rfs]]
  /\ IF ncalls + 1 < MaxCalls THEN call' \in MTCalls ELSE call' = call
  /\ UNCHANGED << phase, done, store, lockOwner, pc, step, iblock, imt, itr,
                  exc, cwd, old_wd, handler, run_interrupted, wb_interrupted,
                  proc, sigterm, result, runner_output, duplicate_inserts,
                  nlock, nunlock, nput, nsig, nfail, nresume, ndup, putlog,
                  patches, runlog, force, nworkers, psgrn_input >>

InitMT ==
  /\ Fresh
  /\ force = FALSE
  /\ nworkers = 1
  /\ call \in MTCalls
  /\ ret = NoCall

NextMT == pmt_to_rfs_call

SpecMT == InitMT /\ [][NextMT]_vars

\* ------------------------------------------------------- one run of psgrn
\* PsGrnRunner.run(config, force) called once, on an output directory with
\* or without a file "input" left by an earlier run.
InitRun ==
  /\ phase = "STEP0_RUNNING"
  /\ done = {}
  /\ store = EmptyStore
  /\ lockOwner = 0
  /\ pc = [w \in Workers |-> IF w = 1 THEN "run_write_input" ELSE "idle"]
  /\ step = FreshWorkers(0)
  /\ iblock = FreshWorkers(0)
  /\ imt = FreshWorkers(0)
  /\ itr = FreshWorkers(0)
  /\ exc = FreshWorkers("none")
  /\ cwd = FreshWorkers("start")
  /\ old_wd = FreshWorkers("start")
  /\ handler = FreshWorkers("original")
  /\ run_interrupted = FreshWorkers(FALSE)
  /\ wb_interrupted = FreshWorkers(FALSE)
  /\ proc = FreshWorkers("unbound")
  /\ sigterm = FreshWorkers(FALSE)
  /\ result = FreshWorkers(NoResult)
  /\ runner_output = FreshWorkers("none")
  /\ duplicate_inserts = FreshWorkers(0)
  /\ nlock = FreshWorkers(0)
  /\ nunlock = FreshWorkers(0)
  /\ nput = FreshWorkers(0)
  /\ patches = FreshWorkers(<<>>)
  /\ runlog = FreshWorkers(<<>>)
  /\ heap = Heap0
  /\ nsig = 0
  /\ nfail = 0
  /\ nresume = 0
  /\ ndup = 0
  /\ putlog = <<>>
  /\ call \in [op : {"run"}, input_exists : BOOLEAN]
  /\ psgrn_input = call.input_exists
  /\ force \in BOOLEAN
  /\ nworkers = 1
  /\ ret = NoCall

NextRun ==
  \/ run_write_input(1)
  \/ run_open_input(1)
  \/ run_chdir(1)
  \/ run_signal(1)
  \/ run_popen(1)
  \/ run_communicate(1)
  \/ run_finally(1)
  \/ run_check(1)
  \/ sigint(1)

SpecRun == InitRun /\ [][NextRun]_vars

\* --------------------------------------------------------------- one block
\* work_block(iblock) called once by worker 1, for the block of step 0 or
\* for a block of step 1, on an empty store.
BlockCalls ==
  {c \in [op : {"work_block"}, step : 0..(nsteps - 1), iblock : 0..(NDepth - 1)] :
     c.iblock \in all_block_indices(c.step)}

InitBlock ==
  /\ call \in BlockCalls
  /\ phase = IF call.step = 0 THEN "STEP0_RUNNING" ELSE "STEP1_RUNNING"
  /\ done = {}
  /\ store = EmptyStore
  /\ lockOwner = 0
  /\ pc = [w \in Workers |-> IF w = 1 THEN "wb_begin" ELSE "idle"]
  /\ step = FreshWorkers(call.step)
  /\ iblock = FreshWorkers(call.iblock)
  /\ imt = FreshWorkers(0)
  /\ itr = FreshWorkers(0)
  /\ exc = FreshWorkers("none")
  /\ cwd = FreshWorkers("start")
  /\ old_wd = FreshWorkers("start")
  /\ handler = FreshWorkers("original")
  /\ run_interrupted = FreshWorkers(FALSE)
  /\ wb_interrupted = FreshWorkers(FALSE)
  /\ proc = FreshWorkers("unbound")
  /\ sigterm = FreshWorkers(FALSE)
  /\ result = FreshWorkers(NoResult)
  /\ runner_output = FreshWorkers("none")
  /\ duplicate_inserts = FreshWorkers(0)
  /\ nlock = FreshWorkers(0)
  /\ nunlock = FreshWorkers(0)
  /\ nput = FreshWorkers(0)
  /\ patches = FreshWorkers(<<>>)
  /\ runlog = FreshWorkers(<<>>)
  /\ heap = Heap0
  /\ nsig = 0
  /\ nfail = 0
  /\ nresume = 0
  /\ ndup = 0
  /\ putlog = <<>>
  /\ psgrn_input = FALSE
  /\ force = FALSE
  /\ nworkers = 1
  /\ ret = NoCall

NextBlock ==
  \/ wb_begin(1)
  \/ wb_patches(1)
  \/ run_write_input(1)
  \/ run_open_input(1)
  \/ run_chdir(1)
  \/ run_signal(1)
  \/ run_popen(1)
  \/ run_communicate(1)
  \/ run_finally(1)
  \/ run_check(1)
  \/ wb_get_traces(1)
  \/ wb_signal(1)
  \/ wb_lock(1)
  \/ wb_put(1)
  \/ wb_finally(1)
  \/ wb_check(1)
  \/ wb_done(1)
  \/ sigint(1)

SpecBlock == InitBlock /\ [][NextBlock]_vars

\* ------------------------------------------------- functions of the backend
\* The scaling factors of a material, asked for with moduli that are whole
\* or half numbers.
Moduli == {rat(n, d) : n \in 1..MaxModulus, d \in {1, 2}}

IsoCalls == [op : {"iso"}, mu : Moduli, lame_lambda : Moduli]

iso_call ==
  /\ call.op = "iso"
  /\ ret = NoCall
  /\ LET r == get_iso_scaling_factors(call.mu, call.lame_lambda)
     IN  ret' = [op |-> "iso", exc |-> r.exc, nullf |-> r.nullf, scale |-> r.scale]
  /\ UNCHANGED << phase, done, store, lockOwner, pc, step, iblock, imt, itr,
                  exc, cwd, old_wd, handler, run_interrupted, wb_interrupted,
                  proc, sigterm, result, runner_output, duplicate_inserts,
                  nlock, nunlock, nput, nsig, nfail, nresume, ndup, putlog,
                  call, patches, runlog, force, nworkers, heap, psgrn_input >>

\* Ai, sf and mui of work_block for a material and a patch of edge length
\* mtsize, and the numbers that the factors of gfmapping stand for
block_factors(mu, lame_lambda, mtsize) ==
  LET Ai == rat_div(int(1), rat_mul(mtsize, mtsize)).value
      iso == get_iso_scaling_factors(mu, lame_lambda)
      mui == rat_div(int(1), mu).value
  IN  [exc |-> iso.exc, nullf |-> iso.nullf,
       value |-> [t \in {"Ai*sf", "Ai*mui", "none"} |->
                    IF t = "Ai*sf" THEN rat_mul(Ai, iso.scale)
                    ELSE IF t = "Ai*mui" THEN rat_mul(rat_mul(int(1), Ai), mui)
                    ELSE int(1)]]

\* the samples of a stored trace: gf_tr.data after "gf_tr.data *= factor"
samples(gf_tr, factors) ==
  [i \in DOMAIN gf_tr.data |-> rat_mul(gf_tr.data[i], factors.value[gf_tr.factor])]

\* One trace of the solver, for one component of gfmapping, scaled and put
\* into an empty store by the loop body of work_block.
ScaleCalls ==
  [op : {"scale"}, imt : 1..NComp, channel : {"un", "ue", "ud"},
   mu : Moduli, lame_lambda : Moduli, mtsize : {int(n) : n \in 1..MaxSize},
   sample : {rat(-5, 2), int(3)}]

scale_call ==
  /\ call.op = "scale"
  /\ ret = NoCall
  /\ LET factors == block_factors(call.mu, call.lame_lambda, call.mtsize)
         gfmap == gfmapping[call.imt].gfmap
         tr == [channel |-> call.channel, distance |-> 0,
                ydata |-> <<int(0), call.sample>>]
         r == put_trace(EmptyStore, 0, gfmap, tr)
     IN  ret' = IF r.outcome = "inserted"
                  THEN [op |-> "scale", outcome |-> r.outcome,
                        data |-> samples(r.store[<<0, 0, gfmap[call.channel][1]>>],
                                         factors)]
                  ELSE [op |-> "scale", outcome |-> r.outcome, data |-> <<>>]
  /\ UNCHANGED << phase, done, store, lockOwner, pc, step, iblock, imt, itr,
                  exc, cwd, old_wd, handler, run_interrupted, wb_interrupted,
                  proc, sigterm, result, runner_output, duplicate_inserts,
                  nlock, nunlock, nput, nsig, nfail, nresume, ndup, putlog,
                  call, patches, runlog, force, nworkers, heap, psgrn_input >>

\* program_bins: the registered programs, keyed by program and variant
program_bins == {<<"pscmp", "2008a">>, <<"psgrn", "2008a">>}

\* the argument variant of init: a string, or None (written NoVariant)
NoVariant == "<None>"

Variants == {NoVariant, "2008a", "2008b", "2010a", ""}

\* the variant is not looked up: the store is created for whatever is given
init_unchecked(store_dir, variant) ==
  [exc |-> "none", created |-> {store_dir}, modelling_code_id |-> variant]

\* init: the variant defaults to 2008a, both programs have to be registered
\* for it, and then Store.create_editables writes the files of the store;
\* created is the set of store directories written
init(store_dir, variant) ==
  LET v == IF variant = NoVariant THEN "2008a" ELSE variant
  IN  IF <<"pscmp", v>> \notin program_bins
        THEN [exc |-> "StoreError", created |-> {}, modelling_code_id |-> "none"]
      ELSE IF <<"psgrn", v>> \notin program_bins
        THEN [exc |-> "StoreError", created |-> {}, modelling_code_id |-> "none"]
      ELSE [exc |-> "none", created |-> {store_dir}, modelling_code_id |-> v]

InitCalls == [op : {"init"}, store_dir : {"store_a", "store_b"}, variant : Variants]

init_call ==
  /\ call.op = "init"
  /\ ret = NoCall
  /\ LET r == init(call.store_dir, call.variant)
     IN  ret' = [op |-> "init", exc |-> r.exc, created |-> r.created,
                 modelling_code_id |-> r.modelling_code_id]
  /\ UNCHANGED << phase, done, store, lockOwner, pc, step, iblock, imt, itr,
                  exc, cwd, old_wd, handler, run_interrupted, wb_interrupted,
                  proc, sigterm, result, runner_output, duplicate_inserts,
                  nlock, nunlock, nput, nsig, nfail, nresume, ndup, putlog,
                  call, patches, runlog, force, nworkers, heap, psgrn_input >>

\* An optional float attribute: <<>> for None, <<h>> for the value of h
\* half metres.
PyNone == <<>>

OptFloats == {PyNone} \cup {<<h>> : h \in {0, 1, 1000, -2000}}

\* the truth value of an optional float: None and 0.0 are false
truthy(v) == v # PyNone /\ v[1] # 0

\* '%15f' % v: sign, integer digits and the six decimals of the text; a
\* None raises TypeError
format_15f(v) ==
  [neg |-> v[1] < 0, int |-> Abs(v[1]) \div 2, frac |-> (Abs(v[1]) % 2) * 500000]

\* PsCmpRectangularSource.string_for_config: the test
\* "self.pos_s or self.pos_d is None" sets both attributes to 0., then the
\* patch row is formatted from the attributes; obj is the object afterwards
string_for_config(pos_s, pos_d) ==
  LET default == truthy(pos_s) \/ pos_d = PyNone
      s1 == IF default THEN <<0>> ELSE pos_s
      d1 == IF default THEN <<0>> ELSE pos_d
  IN  IF s1 = PyNone \/ d1 = PyNone
        THEN [exc |-> "TypeError", row |-> <<>>,
              obj |-> [pos_s |-> s1, pos_d |-> d1]]
        ELSE [exc |-> "none",
              row |-> <<format_15f(s1), format_15f(d1)>>,
              obj |-> [pos_s |-> s1, pos_d |-> d1]]

ConfigCalls == [op : {"string_for_config"}, pos_s : OptFloats, pos_d : OptFloats]

string_for_config_call ==
  /\ call.op = "string_for_config"
  /\ ret = NoCall
  /\ LET r == string_for_config(call.pos_s, call.pos_d)
     IN  ret' = [op |-> "string_for_config", exc |-> r.exc, row |-> r.row,
                 obj |-> r.obj]
  /\ UNCHANGED << phase, done, store, lockOwner, pc, step, iblock, imt, itr,
                  exc, cwd, old_wd, handler, run_interrupted, wb_interrupted,
                  proc, sigterm, result, runner_output, duplicate_inserts,
                  nlock, nunlock, nput, nsig, nfail, nresume, ndup, putlog,
                  call, patches, runlog, force, nworkers, heap, psgrn_input >>

\* the smallest k with 2^k >= i
RECURSIVE ceil_log2_from(_, _)
ceil_log2_from(i, k) == IF 2^k >= i THEN k ELSE ceil_log2_from(i, k + 1)

\* The exponents k up to 30 for which the quotient of doubles
\* math.log(2**k) / math.log(2.) comes out above k: it is
\* 29.000000000000004 for k = 29.  For every other integer below 2^31 the
\* ceiling of the quotient is the ceiling of the exact logarithm.
quotient_above == {29}

\* int(math.ceil(math.log(i) / math.log(2.)))
ceil_log_quotient(i) ==
  LET k == ceil_log2_from(i, 0)
  IN  IF 2^k = i /\ k \in quotient_above THEN k + 1 ELSE k

\* nextpow2
nextpow2(i) == 2^ceil_log_quotient(i)

\* d['n_t2'] = nextpow2(self.n_time_samples) of the psgrn input, for the
\* sample counts up to MaxSamples and the powers of two up to 2^MaxLog2
SampleCalls ==
  [op : {"n_t2"},
   n_time_samples : (1..MaxSamples) \cup {2^k : k \in 0..MaxLog2}]

n_t2_call ==
  /\ call.op = "n_t2"
  /\ ret = NoCall
  /\ ret' = [op |-> "n_t2", n_t2 |-> nextpow2(call.n_time_samples)]
  /\ UNCHANGED << phase, done, store, lockOwner, pc, step, iblock, imt, itr,
                  exc, cwd, old_wd, handler, run_interrupted, wb_interrupted,
                  proc, sigterm, result, runner_output, duplicate_inserts,
                  nlock, nunlock, nput, nsig, nfail, nresume, ndup, putlog,
                  call, patches, runlog, force, nworkers, heap, psgrn_input >>

\* ------------------------------------------------ the solver input texts
\* the patches a pscmp configuration is given: the optional positions of
\* the patch along strike and dip
PatchKinds ==
  { [pos_s |-> PyNone, pos_d |-> PyNone],
    [pos_s |-> <<0>>, pos_d |-> <<1>>],
    [pos_s |-> <<1000>>, pos_d |-> <<-2000>>],
    [pos_s |-> PyNone, pos_d |-> <<1>>] }

\* the sequences over S with at most n elements
SeqsUpTo(S, n) == UNION {[1..k -> S] : k \in 0..n}

\* the patch rows numbered from 0
distributed_fault_patches_to_config_from0(ps) ==
  LET rows == [i \in 1..Len(ps) |-> string_for_config(ps[i].pos_s, ps[i].pos_d)]
      srows == [i \in 1..Len(ps) |-> <<i - 1, rows[i].row>>]
  IN  IF \E i \in 1..Len(ps) : rows[i].exc # "none"
        THEN [exc |-> "TypeError", srows |-> <<>>, n |-> 0]
        ELSE [exc |-> "none", srows |-> srows, n |-> Len(srows)]

\* distributed_fault_patches_to_config: one row '%i %s' % (i + 1,
\* patch.string_for_config()) per patch, i counted from 0 by enumerate, and
\* the number of rows; the TypeError of a patch row leaves the function
distributed_fault_patches_to_config(ps) ==
  LET rows == [i \in 1..Len(ps) |-> string_for_config(ps[i].pos_s, ps[i].pos_d)]
      srows == [i \in 1..Len(ps) |-> <<(i - 1) + 1, rows[i].row>>]
  IN  IF \E i \in 1..Len(ps) : rows[i].exc # "none"
        THEN [exc |-> "TypeError", srows |-> <<>>, n |-> 0]
        ELSE [exc |-> "none", srows |-> srows, n |-> Len(srows)]

km == 1000

\* the scanlines of the layered models: depth, vp, vs, rho, qp, qs, eta1,
\* eta2, alpha
Scanlines ==
  { <<0, 6000, 3500, 2700, 1000, 500, 0, 0, 1>>,
    <<20000, 8000, 4500, 3300, 1200, 600, 1, 0, 1>> }

\* cake_model_to_config: one row '%i %15s' % (ir + 1, str_float_vals(row))
\* per scanline, with row = [depth / km, vp / km, vs / km, rho, eta1, eta2,
\* alpha], and the number of rows
cake_model_to_config(scanlines) ==
  LET line(r) == << rat(r[1], km), rat(r[2], km), rat(r[3], km), int(r[4]),
                    int(r[7]), int(r[8]), int(r[9]) >>
      srows == [ir \in 1..Len(scanlines) |-> <<(ir - 1) + 1, line(scanlines[ir])>>]
  IN  [srows |-> srows, n |-> Len(srows)]

\* PsGrnConfigFull.string_for_config: the fields n_model_lines and
\* model_lines of the input text; the model must be given
PsGrnConfigFull_string_for_config(earthmodel_1d) ==
  IF earthmodel_1d = PyNone
    THEN [exc |-> "AssertionError", n_model_lines |-> 0, model_lines |-> <<>>]
    ELSE LET m == cake_model_to_config(earthmodel_1d[1])
         IN  [exc |-> "none", n_model_lines |-> m.n, model_lines |-> m.srows]

\* the ceiling of a fraction with a positive denominator
rat_ceil(a) == 0 - ((0 - a[1]) \div a[2])

\* num.linspace(start, stop, n): n samples from start, the last one stop;
\* no sample for n = 0, start alone for n = 1, ValueError for n < 0
linspace(start, stop, n) ==
  IF n < 0
    THEN [exc |-> "ValueError", value |-> <<>>]
    ELSE [exc |-> "none",
          value |-> [i \in 1..n |->
            IF n = 1 THEN start
            ELSE rat_add(start,
                   rat_mul(int(i - 1),
                     rat_div(rat_add(stop, rat_neg(start)), int(n - 1)).value))]]

\* PsCmpSnapshots.times:
\* nt = int(num.ceil((self.tmax - self.tmin) / self.deltatdays));
\* num.linspace(self.tmin, self.tmax, nt).tolist()
times(sn) ==
  LET q == rat_div(rat_add(sn.tmax, rat_neg(sn.tmin)), sn.deltatdays)
  IN  IF q.exc # "none"
        THEN [exc |-> q.exc, value |-> <<>>]
        ELSE linspace(sn.tmin, sn.tmax, rat_ceil(q.value))

\* PsCmpSnapshots.deltat: self.deltatdays * 24 * 3600
deltat(sn) == rat_mul(sn.deltatdays, int(24 * 3600))

\* the snapshot definitions: tmin, tmax and deltatdays in days
Days == {int(d) : d \in 0..MaxDays}

Snapshots ==
  [tmin : {int(0), int(1)}, tmax : Days, deltatdays : {int(0), rat(1, 2), int(1), int(2)}]

\* the file names taken from the length of the patch list
get_output_filenames_of_patches(cfg, rundir) ==
  LET t == times(cfg.snapshots)
  IN  IF t.exc # "none"
        THEN [exc |-> t.exc, value |-> <<>>]
        ELSE [exc |-> "none",
              value |-> [i \in 1..Len(cfg.rectangular_source_patches) |->
                 [dir |-> rundir,
                  name |-> <<cfg.snapshot_basefilename, (i - 1) + 1>>]]]

\* PsCmpConfigFull.get_output_filenames: pjoin(rundir,
\* self.snapshot_basefilename + '_' + str(i + 1) + '.txt') for i in
\* range(len(self.snapshots.times))
get_output_filenames(cfg, rundir) ==
  LET t == times(cfg.snapshots)
  IN  IF t.exc # "none"
        THEN [exc |-> t.exc, value |-> <<>>]
        ELSE [exc |-> "none",
              value |-> [i \in 1..Len(t.value) |->
                 [dir |-> rundir,
                  name |-> <<cfg.snapshot_basefilename, (i - 1) + 1>>]]]

\* a line of the input text that holds a comment and no snapshot
comment_row(text) == [text |-> text, time |-> <<>>, name |-> <<>>]

\* PsCmpConfigFull.string_for_config: the fields n_patches, patches_str,
\* n_snapshots and str_times_snapshots of the input text; a snapshot row is
\* "%f  '%s_%i.txt'\n" % (time, self.snapshot_basefilename, i + 1), and
\* n_snapshots is the length of the row list without its closing '#'
PsCmpConfigFull_string_for_config(cfg) ==
  LET p == distributed_fault_patches_to_config(cfg.rectangular_source_patches)
      t == times(cfg.snapshots)
      str_times_dummy ==
        [i \in 1..Len(t.value) |->
           [text |-> "row", time |-> t.value[i],
            name |-> <<cfg.snapshot_basefilename, (i - 1) + 1>>]]
          \o << comment_row("#") >>
      none == [exc |-> "none", n_patches |-> 0, patches_str |-> <<>>,
               n_snapshots |-> 0, str_times_snapshots |-> <<>>]
  IN  IF p.exc # "none" THEN [none EXCEPT !.exc = p.exc]
      ELSE IF t.exc # "none" THEN [none EXCEPT !.exc = t.exc]
      ELSE IF t.value # <<>>
        THEN [exc |-> "none", n_patches |-> p.n, patches_str |-> p.srows,
              n_snapshots |-> Len(str_times_dummy) - 1,
              str_times_snapshots |-> str_times_dummy]
        ELSE [exc |-> "none", n_patches |-> p.n, patches_str |-> p.srows,
              n_snapshots |-> 0, str_times_snapshots |-> << comment_row("# ") >>]

PsCmpConfigs ==
  [rectangular_source_patches : SeqsUpTo(PatchKinds, MaxRows),
   snapshots : Snapshots,
   snapshot_basefilename : {"snapshot"}]

PsCmpInputCalls == [op : {"pscmp_input"}, config : PsCmpConfigs]

\* the pscmp input text and the output file names of one configuration
pscmp_input_call ==
  /\ call.op = "pscmp_input"
  /\ ret = NoCall
  /\ LET r == PsCmpConfigFull_string_for_config(call.config)
         f == get_output_filenames(call.config, "tempdir")
     IN  ret' = [op |-> "pscmp_input", input |-> r, fns |-> f,
                 times |-> times(call.config.snapshots),
                 deltat |-> deltat(call.config.snapshots)]
  /\ UNCHANGED << phase, done, store, lockOwner, pc, step, iblock, imt, itr,
                  exc, cwd, old_wd, handler, run_interrupted, wb_interrupted,
                  proc, sigterm, result, runner_output, duplicate_inserts,
                  nlock, nunlock, nput, nsig, nfail, nresume, ndup, putlog,
                  call, patches, runlog, force, nworkers, heap, psgrn_input >>

PsGrnInputCalls ==
  [op : {"psgrn_input"},
   earthmodel_1d : {PyNone} \cup {<<m>> : m \in SeqsUpTo(Scanlines, MaxRows)}]

\* the psgrn input text of one configuration
psgrn_input_call ==
  /\ call.op = "psgrn_input"
  /\ ret = NoCall
  /\ ret' = [op |-> "psgrn_input",
             input |-> PsGrnConfigFull_string_for_config(call.earthmodel_1d)]
  /\ UNCHANGED << phase, done, store, lockOwner, pc, step, iblock, imt, itr,
                  exc, cwd, old_wd, handler, run_interrupted, wb_interrupted,
                  proc, sigterm, result, runner_output, duplicate_inserts,
                  nlock, nunlock, nput, nsig, nfail, nresume, ndup, putlog,
                  call, patches, runlog, force, nworkers, heap, psgrn_input >>

FnCalls ==
  IsoCalls \cup ScaleCalls \cup InitCalls \cup ConfigCalls \cup SampleCalls
    \cup PsCmpInputCalls \cup PsGrnInputCalls

InitFn ==
  /\ Fresh
  /\ force = FALSE
  /\ nworkers = 1
  /\ call \in FnCalls
  /\ ret = NoCall

NextFn ==
  \/ iso_call
  \/ scale_call
  \/ init_call
  \/ string_for_config_call
  \/ n_t2_call
  \/ pscmp_input_call
  \/ psgrn_input_call

SpecFn == InitFn /\ [][NextFn]_vars

\* =================================================================== claims
\* ---------------------------------------------------------- helper notions
RunPcs == {"run_write_input", "run_open_input", "run_chdir", "run_signal",
           "run_popen", "run_communicate", "run_finally", "run_check"}

\* positions of a component before its lock() call
PreLockPcs == {"wb_patches", "wb_get_traces", "wb_signal", "wb_lock"} \cup RunPcs

\* traces of one component that are put: one per mapped channel and distance
mapped(c, nx) == nx * Cardinality(DOMAIN gfmapping[c].gfmap)

RECURSIVE puts_through(_, _)
puts_through(c, nx) == IF c = 0 THEN 0 ELSE puts_through(c - 1, nx) + mapped(c, nx)

nx_of(w) == get_block_extents(step[w], iblock[w]).nx

\* the current trace of the write loop of w and the key it is put under
cur_tr(w) == rawtraces(w)[itr[w]]

cur_is_put(w) == pc[w] = "wb_put" /\ cur_tr(w).channel \in DOMAIN gfmapping[imt[w]].gfmap

cur_args(w) ==
  <<get_block_extents(step[w], iblock[w]).sz, cur_tr(w).distance,
    gfmapping[imt[w]].gfmap[cur_tr(w).channel][1]>>

\* w executes a put in this step
puts(w) == nput'[w] = nput[w] + 1

\* the store after one uninterrupted pass over a sequence of traces, a
\* component, a block, all blocks
RECURSIVE write_traces(_, _, _, _, _)
write_traces(st, sz, gfmap, trs, i) ==
  IF i > Len(trs) THEN st
  ELSE write_traces(put_trace(st, sz, gfmap, trs[i]).store, sz, gfmap, trs, i + 1)

RECURSIVE write_block(_, _, _)
write_block(st, ib, c) ==
  IF c > NComp THEN st
  ELSE LET e == get_block_extents(1, ib)
       IN  write_block(
             write_traces(st, e.sz, gfmapping[c].gfmap,
                          get_traces(e.sz, e.firstx, e.nx, gfmapping[c].mt), 1),
             ib, c + 1)

RECURSIVE write_blocks(_, _)
write_blocks(st, ib) ==
  IF ib >= nblocks(1) THEN st ELSE write_blocks(write_block(st, ib, 1), ib + 1)

UninterruptedStore == write_blocks(EmptyStore, 0)

\* ----------------------------------------------------------------------- C1
\* C1: a put that answers DuplicateInsert for a key already present does not
\* make work_block raise: in that step the duplicate is counted, the store is
\* left as it is and the loop goes on (to the next trace, or to the finally
\* clause after the last one); no block ever ends with DuplicateInsert, and a
\* block that reaches its end, duplicates or not, has put every trace of its
\* six components and holds all its keys in the store.
C1_DuplicateStep ==
  \A w \in Workers :
    (cur_is_put(w) /\ store[cur_args(w)] # None /\ puts(w) /\ exc'[w] # "StoreError")
      => /\ exc'[w] = "none"
         /\ duplicate_inserts'[w] = duplicate_inserts[w] + 1
         /\ store' = store
         /\ IF itr[w] = Len(rawtraces(w))
              THEN pc'[w] = "wb_finally"
              ELSE pc'[w] = "wb_put" /\ itr'[w] = itr[w] + 1

C1_BlockCompletes ==
  \A w \in Workers :
    /\ exc[w] # "DuplicateInsert"
    /\ (pc[w] = "wb_done" /\ step[w] = 1)
         => /\ nput[w] = puts_through(NComp, nx_of(w))
            /\ \A k \in Keys :
                 k[1] = get_block_extents(1, iblock[w]).sz => store[k] # None

C1_DuplicateRecovered == [][C1_DuplicateStep]_vars /\ []C1_BlockCompletes

\* a block re-run after an abort has met duplicates and has reached its end
C1_Witness ==
  \E w \in Workers : pc[w] = "wb_done" /\ step[w] = 1 /\ ndup = 1 /\ exc[w] = "none"

\* ----------------------------------------------------------------------- C2
\* C2: over any sequence of puts, the first put of a key answers inserted and
\* every later put of that key answers DuplicateInsert, and every key that
\* was put holds the value of its first put (no key holds anything else, a
\* key never put holds nothing).
first_put(k) ==
  CHOOSE i \in 1..Len(putlog) :
    putlog[i].args = k /\ \A j \in 1..(i - 1) : putlog[j].args # k

C2_PutIdempotent ==
  /\ \A i \in 1..Len(putlog) :
       putlog[i].outcome =
         IF \E j \in 1..(i - 1) : putlog[j].args = putlog[i].args
           THEN "DuplicateInsert" ELSE "inserted"
  /\ \A k \in Keys :
       store[k] = IF \E i \in 1..Len(putlog) : putlog[i].args = k
                    THEN putlog[first_put(k)].value ELSE None
  /\ duplicate_inserts[1] =
       Cardinality({i \in 1..Len(putlog) : putlog[i].outcome = "DuplicateInsert"})

\* a key has been put twice, with different traces
C2_Witness ==
  \E i, j \in 1..Len(putlog) :
    i < j /\ putlog[i].args = putlog[j].args /\ putlog[i].value # putlog[j].value

\* ----------------------------------------------------------------------- C3
\* C3: a build that is aborted at any point of step 1 (solver failure, store
\* failure or SIGINT, also between the components of a block) and entered
\* again with continue_ works only blocks that are not recorded as finished
\* (step 0 is not run again once it has finished), and when it is done the
\* store holds exactly the keys and values of one uninterrupted run.
C3_Resumable ==
  /\ \A w \in Workers : InWorkBlock(w) => <<step[w], iblock[w]>> \notin done
  /\ phase = "DONE" => store = UninterruptedStore

\* done after an abort inside a block whose re-run met duplicates
C3_Witness == phase = "DONE" /\ nresume >= 1 /\ ndup = 1

\* ----------------------------------------------------------------------- C4
\* C4: a worker executes a put only while it holds the store write lock,
\* after a lock() that has not yet been matched by an unlock(), and it still
\* holds the lock after the put.
C4_PutStep ==
  \A w \in Workers :
    puts(w) => /\ lockOwner = w
               /\ lockOwner' = w
               /\ nlock[w] = nunlock[w] + 1

C4_PutUnderLock == [][C4_PutStep]_vars

\* a put has been executed
C4_Witness == \E w \in Workers : pc[w] = "wb_put" /\ nput[w] >= 1 /\ lockOwner = w

\* ----------------------------------------------------------------------- C5
\* C5: a worker that has left work_block, by returning or with any
\* exception, does not hold the store write lock, and has called unlock() as
\* often as lock().
C5_LockReleasedOnExit ==
  \A w \in Workers :
    ~InWorkBlock(w) => lockOwner # w /\ nlock[w] = nunlock[w]

\* work_block has been left with the exception of a put made under the lock
C5_Witness ==
  \E w \in Workers : pc[w] = "aborted" /\ exc[w] = "StoreError" /\ nlock[w] >= 1

InWritePhase(w) == pc[w] \in {"wb_put", "wb_finally"}

C7_OneWriter ==
  /\ \A w \in Workers : InWritePhase(w) => lockOwner = w
  /\ \A w, v \in Workers : (InWritePhase(w) /\ InWritePhase(v)) => w = v

\* one worker is in its write loop while the other waits in lock()
C7_Witness ==
  \E w, v \in Workers :
    w # v /\ pc[w] = "wb_put" /\ nput[w] >= 1 /\ pc[v] = "wb_lock"

\* ----------------------------------------------------------------------- C8
\* C8: a SIGINT delivered while run() waits for the child in communicate()
\* sends SIGTERM to the child and records the interruption without raising
\* anything at that point; once the interruption is recorded, run() is
\* still waiting, or the child has been waited for; the output of that
\* invocation is not recorded on the runner, get_traces and the write loop
\* are not reached, and the worker has made no put for that component.
C8_SigintStep ==
  \A w \in Workers :
    (pc[w] = "run_communicate" /\ nsig' = nsig + 1 /\ handler[w] = "run"
       /\ (\A v \in Workers : v # w => pc'[v] = pc[v] /\ wb_interrupted'[v] = wb_interrupted[v]
                                         /\ run_interrupted'[v] = run_interrupted[v]))
      => /\ sigterm'[w]
         /\ run_interrupted'[w]
         /\ pc'[w] = "run_communicate"
         /\ exc'[w] = "none"

C8_Interrupted ==
  \A w \in Workers :
    run_interrupted[w] =>
      /\ pc[w] \in {"run_communicate", "run_finally", "run_check", "aborted"}
      /\ pc[w] # "run_communicate" => proc[w] = "reaped"
      /\ runner_output[w] # invocation(w)
      /\ step[w] = 1 => nput[w] = puts_through(imt[w] - 1, nx_of(w))

C8_InterruptedRun == [][C8_SigintStep]_vars /\ []C8_Interrupted

\* run() has raised KeyboardInterrupt for a child that was terminated and
\* nevertheless ended with exit code 0 and clean output
C8_Witness ==
  \E w \in Workers :
    /\ pc[w] = "aborted" /\ exc[w] = "KeyboardInterrupt"
    /\ run_interrupted[w] /\ sigterm[w] /\ proc[w] = "reaped"
    /\ errmess(kind(w), result[w]) = <<>>

\* ----------------------------------------------------------------------- C9
\* C9: an invocation whose interruption was recorded, its child having been
\* sent SIGTERM, ends with KeyboardInterrupt: whenever run() has been left
\* with the interruption recorded, it has been left with an exception, and
\* the exception is KeyboardInterrupt, not the solver error or another one.
C9_InterruptedIsCancellation ==
  \A w \in Workers :
    (run_interrupted[w] /\ sigterm[w] /\ pc[w] \notin RunPcs) =>
      pc[w] = "aborted" /\ exc[w] = "KeyboardInterrupt"

\* ---------------------------------------------------------------------- C10
\* C10: whenever run() has been left on one of its exit paths (it has
\* returned, it has raised the solver error for an executable that could
\* not be launched or for a failed invocation, or it has raised
\* KeyboardInterrupt for a recorded interruption), the working directory of
\* the process is the one it had before the call.
RunExitPath(w) ==
  \/ exc[w] = "none"
  \/ exc[w] \in {"PsGrnError", "PsCmpError"}
  \/ exc[w] = "KeyboardInterrupt" /\ run_interrupted[w]

C10_CwdRestored ==
  \A w \in Workers :
    (pc[w] \notin {"run_signal", "run_popen", "run_communicate", "run_finally",
                   "run_check"} /\ RunExitPath(w))
      => cwd[w] = old_wd[w]

\* ---------------------------------------------------------------------- C11
\* C11: an invocation that has completed without a recorded interruption
\* raises the solver error if and only if the exit code is non-zero or
\* 'error' occurs in the standard output, and the diagnostic then carries
\* one message per such condition: in the step that classifies the result,
\* run() leaves with the solver error exactly when one of the two conditions
\* holds, and the messages are as many as the conditions that hold.
conditions(r) ==
  (IF r.returncode # 0 THEN 1 ELSE 0) + (IF r.errword THEN 1 ELSE 0)

classifies(w) ==
  pc[w] = "run_check" /\ ~run_interrupted[w] /\ pc'[w] # "run_check" /\ nsig' = nsig

C11_ClassifyStep ==
  \A w \in Workers :
    classifies(w) =>
      /\ (pc'[w] = "aborted" /\ exc'[w] = SolverError(w)) <=> conditions(result[w]) > 0
      /\ Len(errmess(kind(w), result[w])) = conditions(result[w])

C11_ErrorIffExitOrKeyword == [][C11_ClassifyStep]_vars

\* ---------------------------------------------------------------------- C12
\* C12: an invocation that ends with exit code 0, without 'error' in its
\* standard output and with something on its error stream completes: in the
\* step that classifies such a result run() does not raise, and the output
\* of the invocation is recorded on the runner.
C12_StderrStep ==
  \A w \in Workers :
    (classifies(w) /\ conditions(result[w]) = 0 /\ result[w].error_str)
      => /\ pc'[w] # "aborted"
         /\ exc'[w] = "none"
         /\ runner_output'[w] = invocation(w)

C12_StderrNotFatal == [][C12_StderrStep]_vars

\* ---------------------------------------------------------------------- C13
\* C13: when the executable cannot be launched, run() raises the solver
\* error without having written the file "input": after the launch of psgrn
\* has failed in a build that was not entered before, no file "input"
\* exists in the psgrn output directory.
launch_failed(w) ==
  pc[w] = "aborted" /\ exc[w] = SolverError(w) /\ proc[w] = "unbound"

C13_NoInputOnLaunchFailure ==
  \A w \in Workers :
    (launch_failed(w) /\ step[w] = 0 /\ nresume = 0) => ~psgrn_input

C15_Step0OneBlock ==
  (ret # NoCall /\ call.op = "blocks" /\ call.step = 0) =>
    LET n == Len(call.ns)
    IN  /\ ret.block_size[n - 1] = call.ns[n - 1]
        /\ ret.block_size[n] = call.ns[n]
        /\ ret.nblocks = 1

\* ---------------------------------------------------------------------- C16
\* C16: for every grid of either layout, every step and every block size,
\* the blocks tile the grid: every block has at least one sample on every
\* axis and lies inside the grid, every grid point lies in exactly one
\* block, and the sample counts of the blocks add up to the size of the
\* grid.
points(conf_ns) ==
  {p \in [DOMAIN conf_ns -> 0..(MaxN + 1)] : \A i \in DOMAIN conf_ns : p[i] < conf_ns[i]}

in_block(p, b) ==
  \A i \in DOMAIN p : b.begins[i] <= p[i] /\ p[i] < b.begins[i] + b.counts[i]

RECURSIVE sum_counts(_, _)
sum_counts(blocks, ib) ==
  IF ib \notin DOMAIN blocks THEN 0
  ELSE prod_from(blocks[ib].counts, 1) + sum_counts(blocks, ib + 1)

C16_BlocksTileGrid ==
  (ret # NoCall /\ call.op = "blocks") =>
    /\ DOMAIN ret.blocks = 0..(ret.nblocks - 1)
    /\ \A ib \in DOMAIN ret.blocks :
         \A i \in DOMAIN call.ns :
           /\ ret.blocks[ib].counts[i] >= 1
           /\ ret.blocks[ib].begins[i] >= 0
           /\ ret.blocks[ib].begins[i] + ret.blocks[ib].counts[i] <= call.ns[i]
    /\ \A p \in points(call.ns) :
         Cardinality({ib \in DOMAIN ret.blocks : in_block(p, ret.blocks[ib])}) = 1
    /\ sum_counts(ret.blocks, 0) = prod_from(call.ns, 1)

\* a partition whose last chunk on one axis is shorter than the others
C16_Witness ==
  /\ ret # NoCall /\ call.op = "blocks"
  /\ \E ib, jb \in DOMAIN ret.blocks :
       \E i \in DOMAIN call.ns : ret.blocks[jb].counts[i] < ret.blocks[ib].counts[i]

\* ---------------------------------------------------------------------- C17
\* C17: for every block of step 1, in either layout and for every block
\* size, the shear modulus and Lame lambda that work_block uses are defined
\* and are the table entries of the block's source depth.
C17_ModuliOfSourceDepth ==
  (ret # NoCall /\ call.op = "blocks" /\ call.step = 1) =>
    \A ib \in DOMAIN ret.work :
      /\ ret.work[ib].moduli.exc = "none"
      /\ ret.work[ib].moduli.entry = ret.work[ib].sz

\* ---------------------------------------------------------------------- C18
\* the records the store holds for one source depth
block_records(sz) == {k \in Keys : k[1] = sz /\ store[k] # None}

sz_of(w) == get_block_extents(step[w], iblock[w]).sz

table_entries ==
  {<<c, ch>> \in (1..NComp) \X {pscmp_displ_names[i] : i \in 1..3} :
     ch \in DOMAIN gfmapping[c].gfmap}

block_points(ib) ==
  LET e == get_block_extents(1, ib)
  IN  (e.sz..(e.sz + e.ns - 1)) \X (e.firstx..(e.firstx + e.nx - 1))

table_injective ==
  \A a, b \in table_entries :
    gfmapping[a[1]].gfmap[a[2]][1] = gfmapping[b[1]].gfmap[b[2]][1] => a = b

blocks_disjoint ==
  \A ib, jb \in all_block_indices(1) :
    ib # jb => block_points(ib) \cap block_points(jb) = {}

C19_NoKeyPutTwice ==
  /\ table_injective
  /\ blocks_disjoint
  /\ nresume = 0 => ndup = 0 /\ \A w \in Workers : duplicate_inserts[w] = 0

\* a build on an empty store is done without having been aborted
C19_Witness == phase = "DONE" /\ nresume = 0 /\ store = UninterruptedStore

\* ---------------------------------------------------------------------- C20
\* C20: for idx in nn, ee, dd and every nullification f, to_rfs(f) returns
\* three sources, all with slip 0, with the orientations of the three
\* isotropic axes, one each; the source with the orientation of idx has
\* opening 1 and the two others have opening f.
orientation(r) == <<r.strike, r.dip, r.rake>>

axis(c) == orientation(MTIso[CHOOSE i \in DOMAIN MTIso : MTIso[i].comp = c])

C20_IsoDecomposition ==
  (ret # NoCall /\ call.op = "to_rfs" /\ call.idx \in {"nn", "ee", "dd"}) =>
    /\ ret.exc = "none"
    /\ Len(ret.rfs) = 3
    /\ \A c \in {"nn", "ee", "dd"} :
         Cardinality({i \in 1..Len(ret.rfs) : orientation(ret.rfs[i]) = axis(c)}) = 1
    /\ \A i \in 1..Len(ret.rfs) :
         /\ ret.rfs[i].slip = 0
         /\ ret.rfs[i].opening =
              IF orientation(ret.rfs[i]) = axis(call.idx) THEN 1 ELSE call.nullification

\* nn has been decomposed with a nullification other than 0 and 1
C20_Witness ==
  /\ ret # NoCall /\ call.op = "to_rfs" /\ call.idx = "nn"
  /\ call.nullification \notin {0, 1}
  /\ Len(ret.rfs) = 3

\* ---------------------------------------------------------------------- C21
\* C21: for idx in ne, nd, ed, to_rfs returns exactly one source, with slip 1
\* and opening 0 and the strike, dip and rake of the entry of idx in the
\* lookup (ne: 90, 90, 180; nd: 180, 0, 0; ed: 270, 0, 0), whatever the
\* nullification argument is.
shear_orientation ==
  [ne |-> <<90, 90, 180>>, nd |-> <<180, 0, 0>>, ed |-> <<270, 0, 0>>]

C21_DevDecomposition ==
  (ret # NoCall /\ call.op = "to_rfs" /\ call.idx \in {"ne", "nd", "ed"}) =>
    /\ ret.exc = "none"
    /\ Len(ret.rfs) = 1
    /\ ret.rfs[1].slip = 1
    /\ ret.rfs[1].opening = 0
    /\ orientation(ret.rfs[1]) = shear_orientation[call.idx]
    /\ \A f \in (0 - MaxNull)..MaxNull :
         PsCmpMomentTensor_to_rfs(call.idx, f).rfs = ret.rfs

\* nd has been decomposed with a nullification other than 0
C21_Witness ==
  /\ ret # NoCall /\ call.op = "to_rfs" /\ call.idx = "nd"
  /\ call.nullification # 0
  /\ Len(ret.rfs) = 1

\* ---------------------------------------------------------------------- C22
\* C22: to_rfs of an idx outside nn, ee, dd, ne, nd, ed raises an exception
\* and returns no source.
C22_UnsupportedRaises ==
  (ret # NoCall /\ call.op = "to_rfs"
     /\ call.idx \notin {"nn", "ee", "dd", "ne", "nd", "ed"}) =>
    /\ ret.exc = "Exception"
    /\ ret.rfs = <<>>

\* the transposed index en has been asked for
C22_Witness ==
  /\ ret # NoCall /\ call.op = "to_rfs" /\ call.idx = "en"
  /\ ret.exc # "none"

\* ---------------------------------------------------------------------- C23
\* C23: for all mu > 0 and lambda > 0, get_iso_scaling_factors returns the
\* nullification -lambda / (2 mu + 2 lambda), which lies strictly between
\* -1/2 and 0, and a trace normalization whose product with
\* 2 mu + lambda + 2 lambda nullification is 1; no division by zero occurs.
C23_IsoScalingFactors ==
  (ret # NoCall /\ call.op = "iso") =>
    LET mu == call.mu
        la == call.lame_lambda
        two_sum == rat_add(rat_add(mu, mu), rat_add(la, la))
        denom == rat_add(rat_add(rat_add(mu, mu), la),
                         rat_mul(rat_add(la, la), ret.nullf))
    IN  /\ ret.exc = "none"
        /\ rat_mul(ret.nullf, two_sum) = rat_neg(la)
        /\ rat_lt(rat(-1, 2), ret.nullf)
        /\ rat_lt(ret.nullf, int(0))
        /\ denom # int(0)
        /\ rat_mul(ret.scale, denom) = int(1)

\* the factors of a material whose two moduli differ and are not whole
C23_Witness ==
  /\ ret # NoCall /\ call.op = "iso"
  /\ call.mu = rat(3, 2) /\ call.lame_lambda = rat(1, 2)
  /\ ret.exc = "none"

\* ---------------------------------------------------------------------- C24
\* C24 as stated: every sample of a trace written in step 1 is the sample
\* of the solver multiplied once by the trace normalization (components nn,
\* ee, dd) or by 1 / shear modulus (components ne, nd, ed).
component_factor(mt, mu, lame_lambda) ==
  IF mt \in comps(MTIso)
    THEN get_iso_scaling_factors(mu, lame_lambda).scale
    ELSE rat_div(int(1), mu).value

C24_ScaledByComponentFactor ==
  (ret # NoCall /\ call.op = "scale" /\ ret.outcome = "inserted") =>
    /\ Len(ret.data) = 2
    /\ ret.data[1] = int(0)
    /\ ret.data[2] =
         rat_mul(call.sample,
                 component_factor(gfmapping[call.imt].mt, call.mu, call.lame_lambda))

\* C24 as amended: every sample of a trace written in step 1 is the sample
\* of the solver multiplied once by Ai times the trace normalization
\* (components nn, ee, dd) or by Ai / shear modulus (components ne, nd, ed),
\* where Ai = 1 / mtsize^2 and mtsize is the edge length of the source patch.
C24_ScaledByAreaAndComponentFactor ==
  (ret # NoCall /\ call.op = "scale" /\ ret.outcome = "inserted") =>
    /\ Len(ret.data) = 2
    /\ ret.data[1] = int(0)
    /\ rat_mul(ret.data[2], rat_mul(call.mtsize, call.mtsize)) =
         rat_mul(call.sample,
                 component_factor(gfmapping[call.imt].mt, call.mu, call.lame_lambda))

\* a vertical trace of the component dd written for a patch of edge length 2
C24_Witness ==
  /\ ret # NoCall /\ call.op = "scale" /\ ret.outcome = "inserted"
  /\ gfmapping[call.imt].mt = "dd" /\ call.channel = "ud"
  /\ call.mtsize = int(2)
  /\ call.mu # call.lame_lambda

\* ---------------------------------------------------------------------- C25
\* C25: in a step-1 block the convolution solver is launched once per
\* component of gfmapping and no component twice, a block that has run to
\* its end without failure has launched it exactly six times, the worker
\* waits for each child before it goes on, and the patches handed to a
\* launch are exactly the elementary sources of its component (three for
\* nn, ee, dd, one for ne, nd, ed).
elementary_sources_of ==
  [ib \in all_block_indices(1) |->
     [mt \in {"nn", "ee", "dd", "ne", "nd", "ed"} |->
        PsCmpMomentTensor_to_rfs(mt, block_nullf(ib)).rfs]]

elementary_sources(mt, ib) == elementary_sources_of[ib][mt]

C25_OneLaunchPerComponent ==
  \A w \in Workers :
    (step[w] = 1 /\ InWorkBlock(w) /\ pc[w] # "wb_begin") =>
      /\ \A i \in DOMAIN runlog[w] :
           /\ runlog[w][i].mt \in {"nn", "ee", "dd", "ne", "nd", "ed"}
           /\ \A j \in DOMAIN runlog[w] : runlog[w][j].mt = runlog[w][i].mt => j = i
           /\ runlog[w][i].patches = elementary_sources(runlog[w][i].mt, iblock[w])
           /\ Len(runlog[w][i].patches) =
                IF runlog[w][i].mt \in {"nn", "ee", "dd"} THEN 3 ELSE 1
      /\ proc[w] = "running" => pc[w] = "run_communicate"
      /\ (pc[w] = "wb_done" /\ exc[w] = "none") => Len(runlog[w]) = 6

\* a block of a depth sample other than the first has launched all six
C25_Witness ==
  \E w \in Workers :
    /\ step[w] = 1 /\ pc[w] = "wb_done" /\ exc[w] = "none"
    /\ iblock[w] > 0
    /\ Len(runlog[w]) = 6
    /\ Len(runlog[w][1].patches) = 3 /\ Len(runlog[w][2].patches) = 1

\* ---------------------------------------------------------------------- C27
\* C27: PsGrnRunner.run that finds a file "input" in the output directory
\* and is not forced fails with CannotCreate, leaves the file in place and
\* launches no solver; when forced it removes the file, writes it anew and
\* goes on to launch the solver.
runner_step(w, at) == pc[w] = at /\ pc'[w] # pc[w] /\ nsig' = nsig

C27_InputStep ==
  \A w \in Workers :
    /\ (runner_step(w, "run_write_input") /\ kind(w) = "psgrn" /\ psgrn_input) =>
         IF force
           THEN /\ ~psgrn_input'
                /\ exc'[w] = "none"
                /\ pc'[w] = "run_open_input"
           ELSE /\ exc'[w] = "CannotCreate"
                /\ pc'[w] = "aborted"
                /\ psgrn_input'
                /\ proc'[w] = "unbound"
    /\ runner_step(w, "run_open_input") =>
         /\ psgrn_input'
         /\ exc'[w] = "none"
         /\ pc'[w] = "run_chdir"

C27_NoLaunchAfterCannotCreate ==
  \A w \in Workers :
    exc[w] = "CannotCreate" =>
      /\ ~force
      /\ psgrn_input
      /\ proc[w] = "unbound"
      /\ runlog[w] = <<>>

C27_ForceReplacesInput ==
  [][C27_InputStep]_vars /\ []C27_NoLaunchAfterCannotCreate

\* a forced run has replaced the file it found and has launched the solver
C27_Witness ==
  /\ call.op = "run" /\ call.input_exists
  /\ force /\ psgrn_input
  /\ proc[1] = "running"
  /\ Len(runlog[1]) = 1

\* ---------------------------------------------------------------------- C26
\* C26: init with a variant for which the pscmp or the psgrn program is not
\* registered fails with StoreError and creates no store files; init with
\* the variant None does what init with the variant 2008a does.
C26_UnsupportedVariant ==
  (ret # NoCall /\ call.op = "init") =>
    /\ (/\ call.variant # NoVariant
        /\ \/ <<"pscmp", call.variant>> \notin program_bins
           \/ <<"psgrn", call.variant>> \notin program_bins) =>
         (ret.exc = "StoreError" /\ ret.created = {})
    /\ call.variant \in {NoVariant, "2008a"} =>
         /\ ret.exc = "none"
         /\ ret.created = {call.store_dir}
         /\ ret.modelling_code_id = "2008a"

\* init has been refused for the variant 2008b
C26_Witness ==
  /\ ret # NoCall /\ call.op = "init"
  /\ call.variant = "2008b"
  /\ ret.exc = "StoreError"

\* ---------------------------------------------------------------------- C28
\* C28: string_for_config of a source whose pos_s and pos_d are set puts
\* exactly these two values into the patch row and leaves both attributes
\* of the object as they were; a source whose pos_s and pos_d are unset has
\* both written as 0.
C28_PositionsEmitted ==
  (ret # NoCall /\ call.op = "string_for_config") =>
    /\ (call.pos_s # PyNone /\ call.pos_d # PyNone) =>
         /\ ret.exc = "none"
         /\ ret.row = <<format_15f(call.pos_s), format_15f(call.pos_d)>>
         /\ ret.obj = [pos_s |-> call.pos_s, pos_d |-> call.pos_d]
    /\ (call.pos_s = PyNone /\ call.pos_d = PyNone) =>
         /\ ret.exc = "none"
         /\ ret.row = <<format_15f(<<0>>), format_15f(<<0>>)>>

\* ---------------------------------------------------------------------- C29
\* C29: the number of time samples written to the psgrn input is the
\* smallest power of two that is not below n_time_samples, for every
\* n_time_samples >= 1; a power of two is written as it is.
C29_SmallestPowerOfTwo ==
  (ret # NoCall /\ call.op = "n_t2") =>
    /\ \E k \in 0..30 : ret.n_t2 = 2^k
    /\ ret.n_t2 >= call.n_time_samples
    /\ ret.n_t2 = 1 \/ ret.n_t2 \div 2 < call.n_time_samples

\* ---------------------------------------------------------------------- C31
\* C31: a block left with KeyboardInterrupt after a SIGINT was recorded by
\* the handler of the write loop has put every trace of the component it
\* was writing, has released the lock, has the previous SIGINT handler back
\* in place, and has launched the solver for no later component; the
\* records of that component and of the components before it are all in
\* the store.
comp_keys(ib, c) ==
  LET e == get_block_extents(1, ib)
  IN  {<<e.sz, e.firstx + d, gfmapping[c].gfmap[ch][1]>> :
         d \in 0..(e.nx - 1), ch \in DOMAIN gfmapping[c].gfmap}

interrupted_in_write_loop(w) ==
  /\ step[w] = 1 /\ pc[w] = "aborted"
  /\ exc[w] = "KeyboardInterrupt" /\ wb_interrupted[w]

C31_WriteLoopNotCutShort ==
  \A w \in Workers :
    interrupted_in_write_loop(w) =>
      /\ nput[w] = puts_through(imt[w], nx_of(w))
      /\ \A c \in 1..imt[w] : \A k \in comp_keys(iblock[w], c) : store[k] # None
      /\ lockOwner # w /\ nlock[w] = nunlock[w]
      /\ handler[w] = "original"
      /\ Len(runlog[w]) = imt[w]

\* the SIGINT arrived while the third component was being written
C31_Witness ==
  \E w \in Workers :
    /\ interrupted_in_write_loop(w)
    /\ imt[w] = 3
    /\ nput[w] = puts_through(3, nx_of(w))

\* ---------------------------------------------------------------------- C32
\* C32: when the convolution solver fails for a component of a block, by
\* not starting or by an error found in its result, work_block is left
\* with the solver error at that step: the store is as it was, it holds
\* the records of all earlier components, no put has been made for the
\* failed component, and the solver is launched for no later component.
comp_committed(ib, c) ==
  LET e == get_block_extents(1, ib)
      trs == get_traces(e.sz, e.firstx, e.nx, gfmapping[c].mt)
      gfmap == gfmapping[c].gfmap
  IN  \A i \in DOMAIN trs :
        trs[i].channel \in DOMAIN gfmap =>
          store[<<e.sz, trs[i].distance, gfmap[trs[i].channel][1]>>] =
            scale(trs[i], gfmap[trs[i].channel][2])

solver_fails(w) ==
  /\ step[w] = 1 /\ nsig' = nsig /\ pc'[w] # pc[w]
  /\ \/ pc[w] = "run_popen" /\ proc'[w] # "running"
     \/ /\ pc[w] = "run_check" /\ ~run_interrupted[w]
        /\ errmess(kind(w), result[w]) # <<>>

C32_FailStep ==
  \A w \in Workers :
    solver_fails(w) =>
      /\ pc'[w] = "aborted"
      /\ exc'[w] = "PsCmpError"
      /\ store' = store
      /\ imt' = imt /\ runlog' = runlog /\ nput' = nput

C32_Failed ==
  \A w \in Workers :
    (step[w] = 1 /\ pc[w] = "aborted" /\ exc[w] = "PsCmpError") =>
      /\ nput[w] = puts_through(imt[w] - 1, nx_of(w))
      /\ \A c \in 1..(imt[w] - 1) : comp_committed(iblock[w], c)
      /\ \A c \in imt[w]..NComp :
           \A k \in comp_keys(iblock[w], c) : store[k] = None
      /\ Len(runlog[w]) \in {imt[w] - 1, imt[w]}
      /\ lockOwner # w

C32_SolverErrorPropagates == [][C32_FailStep]_vars /\ []C32_Failed

\* the solver has failed for the fourth component
C32_Witness ==
  /\ step[1] = 1 /\ pc[1] = "aborted" /\ exc[1] = "PsCmpError"
  /\ imt[1] = 4
  /\ Len(runlog[1]) = 4

\* ---------------------------------------------------------------------- C33
\* C33: a SIGINT delivered while the handler of run() is installed, the
\* child process object not yet bound or the child already waited for
\* included, never makes the handler fail with an exception of its own:
\* run() is never left with NameError or ProcessLookupError, an invocation
\* that was left after such a SIGINT was left with KeyboardInterrupt, and no
\* child is running once run() has been left.
run_handler_sigint(w) ==
  handler[w] = "run" /\ nsig' = nsig + 1

C33_HandlerStep ==
  \A w \in Workers :
    run_handler_sigint(w) =>
      exc'[w] = "none" /\ run_interrupted'[w] /\ handler'[w] = "run"

C33_Left ==
  \A w \in Workers :
    pc[w] \notin RunPcs =>
      /\ exc[w] \notin {"NameError", "ProcessLookupError"}
      /\ proc[w] # "running"
      /\ run_interrupted[w] => exc[w] = "KeyboardInterrupt"

C33_HandlerNeverFails == [][C33_HandlerStep]_vars /\ []C33_Left

\* ---------------------------------------------------------------------- C34
\* C34: the SIGINT handler in effect after PsGrnRunner.run, PsCmpRunner.run
\* and the write loop of work_block is the one that was in effect before:
\* outside the positions between an installation and its finally clause the
\* handler of the process is the original one, whether the call returned,
\* could not launch the executable, raised the solver error, was interrupted
\* or was left by an exception of a store write.
HandlerPcs == {"run_popen", "run_communicate", "run_finally",
               "wb_lock", "wb_put", "wb_finally"}

C35_NoLockWhileSolverRuns ==
  \A w \in Workers :
    /\ (pc[w] \in RunPcs \/ proc[w] = "running") =>
         lockOwner # w /\ nlock[w] = nunlock[w]
    /\ lockOwner = w =>
         /\ pc[w] \in {"wb_put", "wb_finally"}
         /\ proc[w] # "running"
         /\ Len(runlog[w]) = imt[w]

\* the solver of a later component running after the lock has been held and
\* released for an earlier one
C35_Witness ==
  \E w \in Workers :
    /\ proc[w] = "running" /\ step[w] = 1 /\ imt[w] >= 2
    /\ nlock[w] = imt[w] - 1 /\ nunlock[w] = nlock[w]

\* ---------------------------------------------------------------------- C36
\* C36: in every generated solver input the declared counts equal the
\* number of rows that follow and the rows are numbered 1..n in the order of
\* the input sequence: n_patches is the number of patch rows, the i-th of
\* which carries the number i and the text of the i-th patch given, and
\* n_model_lines is the number of model rows, the i-th of which carries the
\* number i and the values of the i-th scanline of the model.
C36_CountsAndNumbering ==
  /\ (ret.op = "pscmp_input" /\ ret.input.exc = "none") =>
       LET ps == call.config.rectangular_source_patches
           rows == ret.input.patches_str
       IN  /\ ret.input.n_patches = Len(rows)
           /\ Len(rows) = Len(ps)
           /\ \A i \in 1..Len(rows) :
                /\ rows[i][1] = i
                /\ rows[i][2] = string_for_config(ps[i].pos_s, ps[i].pos_d).row
  /\ (ret.op = "psgrn_input" /\ ret.input.exc = "none") =>
       LET m == call.earthmodel_1d[1]
           rows == ret.input.model_lines
       IN  /\ ret.input.n_model_lines = Len(rows)
           /\ Len(rows) = Len(m)
           /\ \A i \in 1..Len(rows) :
                /\ rows[i][1] = i
                /\ rows[i][2][1] = rat(m[i][1], km)
                /\ rows[i][2][4] = int(m[i][4])

\* an input generated for as many patches of different kinds as the bound
\* allows
C36_Witness ==
  /\ ret.op = "pscmp_input" /\ ret.input.exc = "none"
  /\ ret.input.n_patches = MaxRows
  /\ ret.input.patches_str[1][2] # ret.input.patches_str[2][2]

\* ---------------------------------------------------------------------- C37
\* C37: for every snapshot definition the number of snapshots declared in
\* the pscmp input, the number of snapshot rows emitted and the number of
\* file names returned by get_output_filenames all equal the number of
\* snapshot times, the i-th row carries the i-th time, and the file name of
\* the i-th row is the base name of the i-th expected output file,
\* <basefilename>_<i>.txt with i counted from 1.
snapshot_rows(input) ==
  SelectSeq(input.str_times_snapshots, LAMBDA r : r.text = "row")

C37_SnapshotCounts ==
  (ret.op = "pscmp_input" /\ ret.input.exc = "none") =>
    LET rows == snapshot_rows(ret.input)
        t == ret.times.value
    IN  /\ ret.fns.exc = "none"
        /\ ret.input.n_snapshots = Len(t)
        /\ Len(rows) = Len(t)
        /\ Len(ret.fns.value) = Len(t)
        /\ \A i \in 1..Len(t) :
             /\ rows[i].time = t[i]
             /\ rows[i].name = ret.fns.value[i].name
             /\ rows[i].name = <<call.config.snapshot_basefilename, i>>

\* a configuration with several snapshots and a different number of patches
C37_Witness ==
  /\ ret.op = "pscmp_input" /\ ret.input.exc = "none"
  /\ ret.input.n_snapshots >= 3
  /\ ret.input.n_patches # ret.input.n_snapshots

\* ---------------------------------------------------------------------- C38
\* C38: PsCmpSnapshots.times starts at tmin and its consecutive entries
\* differ by the sample period deltatdays, the interval that, as
\* deltat = deltatdays * 86400 s, is given to the traces built from the
\* snapshots.
C38_TimesStepIsDeltat ==
  (ret.op = "pscmp_input" /\ ret.times.exc = "none") =>
    LET t == ret.times.value
        sn == call.config.snapshots
    IN  /\ t # <<>> => t[1] = sn.tmin
        /\ \A i \in 1..(Len(t) - 1) :
             /\ rat_add(t[i + 1], rat_neg(t[i])) = sn.deltatdays
             /\ rat_mul(rat_add(t[i + 1], rat_neg(t[i])), int(86400)) = ret.deltat

\* ---------------------------------------------------------------------- C39
\* C39 as stated: with dip_slip = -slip sin(rake) and strike_slip =
\* slip cos(rake) in degrees, the ne source (rake 180, slip 1) has
\* strike_slip -1 and dip_slip 0, the nd and ed sources (rake 0, slip 1)
\* have strike_slip 1 and dip_slip 0, and every tensile source (slip 0) has
\* both equal to 0.
lookup_source(r) ==
  /\ ret # NoCall /\ call.op = "to_rfs" /\ ret.exc = "none"
  /\ r \in DOMAIN ret.rfs

C39_SlipComponents ==
  \A r \in 1..3 :
    lookup_source(r) =>
      LET src == ret.rfs[r]
      IN  /\ call.idx = "ne" =>
               strike_slip(src) = <<-1, 0>> /\ dip_slip(src) = <<0, 0>>
          /\ call.idx \in {"nd", "ed"} =>
               strike_slip(src) = <<1, 0>> /\ dip_slip(src) = <<0, 0>>
          /\ call.idx \in {"nn", "ee", "dd"} =>
               strike_slip(src) = <<0, 0>> /\ dip_slip(src) = <<0, 0>>

\* C39 amended: the same, except that the dip_slip of the ne source is
\* -sin of the double nearest to pi, about -1.2 * 10^-16, which is written
\* to the patch row as -0.000000: 0 to the six decimals of the row.
C39_SlipComponentsOfDoubles ==
  \A r \in 1..3 :
    lookup_source(r) =>
      LET src == ret.rfs[r]
      IN  /\ call.idx = "ne" =>
               /\ src.rake = 180 /\ src.slip = 1
               /\ strike_slip(src) = <<-1, 0>>
               /\ dip_slip(src) = <<0, -12246>>
               /\ slip_text(dip_slip(src)) = [neg |-> TRUE, int |-> 0, frac |-> 0]
          /\ call.idx \in {"nd", "ed"} =>
               /\ src.rake = 0 /\ src.slip = 1
               /\ strike_slip(src) = <<1, 0>> /\ dip_slip(src) = <<0, 0>>
          /\ call.idx \in {"nn", "ee", "dd"} =>
               /\ src.slip = 0
               /\ strike_slip(src) = <<0, 0>> /\ dip_slip(src) = <<0, 0>>

\* the ne source has been returned
C39_Witness == lookup_source(1) /\ call.idx = "ne" /\ ret.rfs[1].rake = 180

\* ---------------------------------------------------------------------- C40
\* C40: decomposition has no side effects and is repeatable: after any
\* sequence of to_rfs calls with any components and nullifications the
\* tables MTIso and MTDev and the requesting object are as they were, every
\* returned source carries the lat, lon, depth, length, width and origin
\* time of the requester, a triad comes in the order nn, ee, dd of the
\* axes, and a call repeated with the same arguments returns equal sources
\* in the same order.
C40_Frame ==
  ret.op = "pmt_to_rfs" =>
    /\ heap.MTIso = MTIso /\ heap.MTDev = MTDev
    /\ heap.pmt = ret.pmt
    /\ \A i \in DOMAIN ret.rfs :
         LET src == ret.rfs[i]
             kw == ret.args.requester
         IN  /\ <<src.lat, src.lon, src.depth>> = <<kw.lat, kw.lon, kw.depth>>
             /\ <<src.length, src.width, src.torigin>> =
                  <<kw.length, kw.width, kw.torigin>>
    /\ Len(ret.rfs) = 3 =>
         \A i \in 1..3 : orientation(ret.rfs[i]) = orientation(MTIso[i])

C40_Repeat ==
  (ret.op = "pmt_to_rfs" /\ ret.before.op = "pmt_to_rfs"
     /\ ret.before.args = ret.args) =>
    ret.rfs = ret.before.rfs /\ ret.exc = ret.before.exc

C40_NoSideEffects == C40_Frame /\ C40_Repeat

\* a triad requested again with the same arguments and a nullification
\* that changes the openings
C40_Witness ==
  /\ ret.op = "pmt_to_rfs" /\ ret.n = 2
  /\ ret.before.op = "pmt_to_rfs" /\ ret.before.args = ret.args
  /\ Len(ret.rfs) = 3 /\ ret.args.nullification \notin {0, 1}

====
